---- MODULE Spec2Model ----
(***************************************************************************)
(* The change detection engine of src/change_detector.py as a state        *)
(* machine: two image files are the inputs, every public function of the   *)
(* engine is an action that is called on them and leaves its outcome (a    *)
(* report, a number, an array or a raised exception) in the state.         *)
(*                                                                         *)
(* Numbers.  The engine computes in floating point.  The model computes    *)
(* the same expressions exactly: a number is (e * 10^10 + n) / d, written  *)
(* [e, n, d] with d > 0, where the e part only arises from a division by   *)
(* the 1e-10 that replaces a zero denominator.  The input values are small *)
(* integers, for which the floating-point results the comparisons of the   *)
(* engine depend on are exact.                                             *)
(***************************************************************************)
EXTENDS Integers, Sequences, FiniteSets, TLC

\* ---------------------------------------------------------------- bounds
MaxWidth == 2   \* widths of the one-row input images: 1..MaxWidth
MaxK == 2       \* threshold factors: -1..MaxK

\* ------------------------------------------------------ program constants
NirBandCount == 4       \* process_geotiff: shape[0] >= 4 has a NIR band
SwirBandCount == 5      \* process_geotiff: shape[0] >= 5 has a SWIR band
TransposeLimit == 5     \* calculate_pixel_change_percentage: shape[0] <= 5
RgbChannels == 3        \* Image.convert('RGB')
HeadlineThreshold == 10 \* process_regular_image: diff > 10
ChannelThreshold == 20  \* process_regular_image: diff[:,:,c] > 20

\* ---------------------------------------------------------------- numbers
Abs(x) == IF x < 0 THEN -x ELSE x

Sgn(x) == IF x < 0 THEN -1 ELSE IF x > 0 THEN 1 ELSE 0

RECURSIVE GCD(_, _)
GCD(a, b) == IF b = 0 THEN a ELSE GCD(b, a % b)

\* (e * 10^10 + n) / d in lowest terms, d > 0
Norm(e, n, d) ==
    LET g == GCD(GCD(Abs(e), Abs(n)), d)
    IN  [e |-> e \div g, n |-> n \div g, d |-> d \div g]

Frac(n, d) == Norm(0, n, d)

Zero == Frac(0, 1)

NumAdd(a, b) == Norm(a.e * b.d + b.e * a.d, a.n * b.d + b.n * a.d, a.d * b.d)

NumNeg(a) == [e |-> -a.e, n |-> -a.n, d |-> a.d]

NumSub(a, b) == NumAdd(a, NumNeg(b))

NumDivInt(a, m) == Norm(a.e, a.n, a.d * m)

NumSign(a) == IF a.e # 0 THEN Sgn(a.e) ELSE Sgn(a.n)

NumGT(a, b) == NumSign(NumSub(a, b)) > 0

NumLT(a, b) == NumSign(NumSub(a, b)) < 0

NumGE(a, b) == ~NumLT(a, b)

NumLE(a, b) == ~NumGT(a, b)

NumMax(a, b) == IF NumGT(a, b) THEN a ELSE b

RECURSIVE SumNum(_, _)
SumNum(s, i) == IF i = 0 THEN Zero ELSE NumAdd(SumNum(s, i - 1), s[i])

RECURSIVE SumInt(_, _)
SumInt(s, i) == IF i = 0 THEN 0 ELSE SumInt(s, i - 1) + s[i]

\* 100 * count / total
Percentage(count, total) == Frac(100 * count, total)

\* ----------------------------------------------------------------- arrays
\* A numpy array: its shape and its elements in C order.
RECURSIVE Size(_)
Size(shape) == IF shape = <<>> THEN 1 ELSE Head(shape) * Size(Tail(shape))

Arr(shape, f(_)) == [shape |-> shape, data |-> [p \in 1..Size(shape) |-> f(p - 1)]]

\* a[i, j, k] and a[i, j], indices from 0
At3(a, i, j, k) == a.data[(i * a.shape[2] + j) * a.shape[3] + k + 1]

At2(a, i, j) == a.data[i * a.shape[2] + j + 1]

\* a[b] of a three-dimensional array: the two-dimensional slice b
Band(a, b) ==
    LET n == a.shape[2] * a.shape[3]
    IN  [shape |-> <<a.shape[2], a.shape[3]>>,
         data |-> [p \in 1..n |-> a.data[b * n + p]]]

\* np.transpose(a, (1, 2, 0))
Transpose120(a) ==
    LET s == <<a.shape[2], a.shape[3], a.shape[1]>>
    IN  Arr(s, LAMBDA q : At3(a, q % s[3], q \div (s[2] * s[3]), (q \div s[3]) % s[2]))

\* numpy broadcasting of two shapes of the same rank
Broadcastable(s, t) ==
    /\ Len(s) = Len(t)
    /\ \A i \in 1..Len(s) : s[i] = t[i] \/ s[i] = 1 \/ t[i] = 1

BroadcastShape(s, t) == [i \in 1..Len(s) |-> IF s[i] = 1 THEN t[i] ELSE s[i]]

BAt2(a, i, j) ==
    At2(a, IF a.shape[1] = 1 THEN 0 ELSE i, IF a.shape[2] = 1 THEN 0 ELSE j)

BAt3(a, i, j, k) ==
    At3(a, IF a.shape[1] = 1 THEN 0 ELSE i,
           IF a.shape[2] = 1 THEN 0 ELSE j,
           IF a.shape[3] = 1 THEN 0 ELSE k)

\* op applied elementwise to two two-dimensional arrays that broadcast
Map2(op(_, _), a, b) ==
    LET s == BroadcastShape(a.shape, b.shape)
    IN  Arr(s, LAMBDA q : op(BAt2(a, q \div s[2], q % s[2]),
                             BAt2(b, q \div s[2], q % s[2])))

\* --------------------------------------------------------------- outcomes
Ok(v) == [ok |-> TRUE, value |-> v]

Raise(e) == [ok |-> FALSE, error |-> e]

None == [none |-> TRUE]

IsNone(x) == "none" \in DOMAIN x

EmptyDict == <<>>

IsEmptyDict(x) == DOMAIN x = {}

\* ------------------------------------------------------- Index Calculator
\* The denominator after `denominator[denominator == 0] = 1e-10`, as
\* eps * 1e-10 + sum: only a sum that is exactly zero is replaced.
\* faulty variant: no replacement
Denominator_Unguarded(x, y) == [eps |-> 0, sum |-> x + y]

Denominator(x, y) == [eps |-> IF x + y = 0 THEN 1 ELSE 0, sum |-> x + y]

\* what a floating-point division by zero leaves in the array: nan or inf
NotFinite == [e |-> 0, n |-> 0, d |-> 0]

IsFinite(a) == a.d > 0

\* faulty variant: the difference taken in the unsigned 8-bit type of the bands
NormalizedDifference_Wrapping(x, y) ==
    LET num == (x - y) % 256
        den == Denominator(x, y)
    IN  IF den.eps # 0 THEN Norm(num, 0, 1)
        ELSE IF den.sum = 0 THEN NotFinite
        ELSE IF den.sum > 0 THEN Norm(0, num, den.sum)
        ELSE Norm(0, -num, -den.sum)

\* (x - y) / denominator on the bands converted by astype(float)
NormalizedDifference(x, y) ==
    LET num == x - y
        den == Denominator(x, y)
    IN  IF den.eps # 0 THEN Norm(num, 0, 1)
        ELSE IF den.sum = 0 THEN NotFinite
        ELSE IF den.sum > 0 THEN Norm(0, num, den.sum)
        ELSE Norm(0, -num, -den.sum)

calculate_ndvi(nir_band, red_band) ==
    IF ~Broadcastable(nir_band.shape, red_band.shape)
    THEN Raise("ValueError")
    ELSE Ok(Map2(NormalizedDifference, nir_band, red_band))

calculate_ndbi(swir_band, nir_band) ==
    IF ~Broadcastable(swir_band.shape, nir_band.shape)
    THEN Raise("ValueError")
    ELSE Ok(Map2(NormalizedDifference, swir_band, nir_band))

\* --------------------------------------------------- Index Change Analyzer
Tenth == Frac(1, 10)

\* faulty variant: a change of exactly 0.1 counts
DiffStatistics_Inclusive(diff, low) ==
    [below |-> Percentage(Cardinality({p \in DOMAIN diff : NumLE(diff[p], low)}),
                          Len(diff)),
     above |-> Percentage(Cardinality({p \in DOMAIN diff : NumGE(diff[p], Tenth)}),
                          Len(diff)),
     mean |-> NumDivInt(SumNum(diff, Len(diff)), Len(diff))]

\* the shares of the entries of diff below low and above 0.1, and their mean
DiffStatistics(diff, low) ==
    [below |-> Percentage(Cardinality({p \in DOMAIN diff : NumLT(diff[p], low)}),
                          Len(diff)),
     above |-> Percentage(Cardinality({p \in DOMAIN diff : NumGT(diff[p], Tenth)}),
                          Len(diff)),
     mean |-> NumDivInt(SumNum(diff, Len(diff)), Len(diff))]

\* faulty variant: the loss threshold without its minus sign
IndexStatistics_SignSlip(before_index, after_index) ==
    DiffStatistics(Map2(LAMBDA a, b : NumSub(a, b), after_index, before_index).data,
                   Tenth)

\* the statistics of one index: the shares of pixels whose index fell or
\* rose by more than 0.1, and the mean change
IndexStatistics(before_index, after_index) ==
    DiffStatistics(Map2(LAMBDA a, b : NumSub(a, b), after_index, before_index).data,
                   NumNeg(Tenth))

VegetationFields(st) ==
    [loss_percentage |-> st.below,
     gain_percentage |-> st.above,
     net_change |-> NumSub(st.above, st.below),
     mean_ndvi_change |-> st.mean]

VegetationChanges(before_ndvi, after_ndvi) ==
    VegetationFields(IndexStatistics(before_ndvi, after_ndvi))

UrbanFields(st) ==
    [growth_percentage |-> st.above,
     decline_percentage |-> st.below,
     net_change |-> NumSub(st.above, st.below),
     mean_ndbi_change |-> st.mean]

UrbanChanges(before_ndbi, after_ndbi) ==
    UrbanFields(IndexStatistics(before_ndbi, after_ndbi))

\* faulty variant: the urban shares left out of the sum
IndexTotal_VegetationOnly(veg, urban) ==
    IF IsEmptyDict(veg) THEN Zero
    ELSE NumAdd(veg.loss_percentage, veg.gain_percentage)

\* the sum of the shares of whichever statistics were computed
IndexTotal(veg, urban) ==
    NumAdd(IF IsEmptyDict(veg) THEN Zero
           ELSE NumAdd(veg.loss_percentage, veg.gain_percentage),
           IF IsEmptyDict(urban) THEN Zero
           ELSE NumAdd(urban.growth_percentage, urban.decline_percentage))

\* the changes dict of the two statistics
IndexChanges(veg, urban) ==
    [analysis_type |-> "satellite_indices",
     vegetation_changes |-> veg,
     urban_changes |-> urban,
     total_change_percentage |-> IndexTotal(veg, urban)]

analyze_satellite_changes(before_ndvi, after_ndvi, before_ndbi, after_ndbi) ==
    LET has_ndvi == ~IsNone(before_ndvi) /\ ~IsNone(after_ndvi)
        has_ndbi == ~IsNone(before_ndbi) /\ ~IsNone(after_ndbi)
    IN  IF \/ has_ndvi /\ ~Broadcastable(before_ndvi.shape, after_ndvi.shape)
           \/ has_ndbi /\ ~Broadcastable(before_ndbi.shape, after_ndbi.shape)
        THEN Raise("ValueError")
        ELSE Ok(IndexChanges(IF has_ndvi THEN VegetationChanges(before_ndvi, after_ndvi)
                             ELSE EmptyDict,
                             IF has_ndbi THEN UrbanChanges(before_ndbi, after_ndbi)
                             ELSE EmptyDict))

\* --------------------------------------------------- Pixel Change Detector
\* Both arrays are transposed when the first axis of before_arr is short.
NormalizedLayout(before_arr, arr) ==
    IF Len(before_arr.shape) = 3 /\ before_arr.shape[1] <= TransposeLimit
    THEN Transpose120(arr)
    ELSE arr

\* faulty variant: mean - k * std
ExceedsThreshold_Minus(x, v, n, k) ==
    IF k <= 0 THEN x > 0 /\ x * x * n > k * k * v
    ELSE IF x >= 0 THEN x > 0 \/ v > 0
    ELSE x * x * n < k * k * v

\* faulty variant: diff_mag >= thr
ExceedsThreshold_Inclusive(x, v, n, k) ==
    IF k >= 0 THEN x >= 0 /\ x * x * n >= k * k * v
    ELSE IF x >= 0 THEN TRUE
    ELSE x * x * n <= k * k * v

\* diff_mag > mean + k * std for the pixel whose band sum is x / n above the
\* mean band sum, with v the sum of the squares of all the pixels' x:
\* x > k * sqrt(v / n), decided without the square root.
ExceedsThreshold(x, v, n, k) ==
    IF k >= 0 THEN x > 0 /\ x * x * n > k * k * v
    ELSE IF x >= 0 THEN x > 0 \/ v > 0
    ELSE x * x * n < k * k * v

\* faulty variant: the difference without np.abs
AbsDiff_Signed(after_value, before_value) == after_value - before_value

\* np.abs(after_f - before_f), one element
AbsDiff(after_value, before_value) == Abs(after_value - before_value)

calculate_pixel_change_percentage(before_arr, after_arr, threshold_factor) ==
    LET b == NormalizedLayout(before_arr, before_arr)
        a == NormalizedLayout(before_arr, after_arr)
    IN  IF ~Broadcastable(a.shape, b.shape)
        THEN Raise("ValueError")
        ELSE
          LET s == BroadcastShape(a.shape, b.shape)
              n == s[1] * s[2]
              \* the sum over the last axis of |after - before|, per pixel
              band_sum == [p \in 1..n |->
                  SumInt([c \in 1..s[3] |->
                             AbsDiff(BAt3(a, (p - 1) \div s[2], (p - 1) % s[2], c - 1),
                                     BAt3(b, (p - 1) \div s[2], (p - 1) % s[2], c - 1))],
                         s[3])]
              total == SumInt(band_sum, n)
              x == [p \in 1..n |-> n * band_sum[p] - total]
              v == SumInt([p \in 1..n |-> x[p] * x[p]], n)
              changed == {p \in 1..n : ExceedsThreshold(x[p], v, n, threshold_factor)}
          IN  Ok(Percentage(Cardinality(changed), n))

\* -------------------------------------------------------- Report Reconciler
\* faulty variant: the pixel-based figure always replaces the headline
Reconcile_Overwrite(changes, pixel_change_pct) ==
    [changes EXCEPT !.total_change_percentage = pixel_change_pct]

\* the larger of the index-based and the pixel-based figure is the headline
Reconcile(changes, pixel_change_pct) ==
    [changes EXCEPT !.total_change_percentage =
        IF NumGT(pixel_change_pct, changes.total_change_percentage)
        THEN pixel_change_pct ELSE @]

WithPixelChange(changes, pixel_change_pct) ==
    [key \in DOMAIN changes \cup {"pixel_change_percentage"} |->
        IF key = "pixel_change_percentage" THEN pixel_change_pct
        ELSE Reconcile(changes, pixel_change_pct)[key]]

\* the index arrays of one raster, when the before raster has the bands:
\* indexing a band the raster does not have raises IndexError
IndexOf(calc(_, _), data, first, second) ==
    IF first >= data.shape[1] \/ second >= data.shape[1]
    THEN Raise("IndexError")
    ELSE calc(Band(data, first), Band(data, second))

\* faulty variant: more than 4 bands
HasNirBand_Strict(before_data) == before_data.shape[1] > NirBandCount

HasNirBand(before_data) == before_data.shape[1] >= NirBandCount

HasSwirBand(before_data) == before_data.shape[1] >= SwirBandCount

\* the report of the index changes and the pixel change percentage
Reconciled(changes, pixel_change_pct) ==
    IF ~changes.ok THEN changes
    ELSE IF ~pixel_change_pct.ok THEN pixel_change_pct
    ELSE Ok(WithPixelChange(changes.value, pixel_change_pct.value))

\* the steps of process_geotiff after the index arrays
AfterIndices(before_ndvi, after_ndvi, before_ndbi, after_ndbi, before_data, after_data, k) ==
    IF ~before_ndvi.ok THEN before_ndvi
    ELSE IF ~after_ndvi.ok THEN after_ndvi
    ELSE IF ~before_ndbi.ok THEN before_ndbi
    ELSE IF ~after_ndbi.ok THEN after_ndbi
    ELSE Reconciled(analyze_satellite_changes(before_ndvi.value, after_ndvi.value,
                                              before_ndbi.value, after_ndbi.value),
                    calculate_pixel_change_percentage(before_data, after_data, k))

process_geotiff(before_data, after_data, threshold_factor) ==
    LET has_nir == HasNirBand(before_data)
        has_swir == has_nir /\ HasSwirBand(before_data)
    IN  AfterIndices(
            IF has_nir THEN IndexOf(calculate_ndvi, before_data, 3, 2) ELSE Ok(None),
            IF has_nir THEN IndexOf(calculate_ndvi, after_data, 3, 2) ELSE Ok(None),
            IF has_swir THEN IndexOf(calculate_ndbi, before_data, 4, 3) ELSE Ok(None),
            IF has_swir THEN IndexOf(calculate_ndbi, after_data, 4, 3) ELSE Ok(None),
            before_data, after_data, threshold_factor)

\* ----------------------------------------------------------- Raster Loader
\* A file is a scientific raster (rasterio reads its band-major array), an
\* ordinary photo (only PIL reads it, as a pixel-major 3-channel array) or
\* something that neither library can read.
NoArray == [shape |-> <<>>, data |-> <<>>]

JunkFile == [format |-> "junk", array |-> NoArray]

\* rasterio.open(path).read()
rasterio_read(file) ==
    IF file.format = "geotiff" THEN Ok(file.array) ELSE Raise("RasterioIOError")

\* np.array(Image.open(path).convert('RGB'))
pil_read_rgb(file) ==
    IF file.format = "photo" THEN Ok(file.array) ELSE Raise("UnidentifiedImageError")

\* ---------------------------------------------------- RGB Fallback Analyzer
\* the number of elements of diff[:, :, c] above the threshold
ChannelCount(diff, c, threshold) ==
    Cardinality({p \in 1..Len(diff) : (p - 1) % RgbChannels = c /\ diff[p] > threshold})

\* faulty variant: a tie for the largest share still gets a label
ChangeType_TiesLabelled(channel_changes) ==
    IF /\ NumGE(channel_changes.green, channel_changes.red)
       /\ NumGE(channel_changes.green, channel_changes.blue)
    THEN "vegetation"
    ELSE IF /\ NumGE(channel_changes.red, channel_changes.green)
            /\ NumGE(channel_changes.red, channel_changes.blue)
    THEN "urban"
    ELSE "unknown"

ChangeType(channel_changes) ==
    IF /\ NumGT(channel_changes.green, channel_changes.red)
       /\ NumGT(channel_changes.green, channel_changes.blue)
    THEN "vegetation"
    ELSE IF /\ NumGT(channel_changes.red, channel_changes.green)
            /\ NumGT(channel_changes.red, channel_changes.blue)
    THEN "urban"
    ELSE "unknown"

\* faulty variant: the headline counted at the channel threshold
SignificantChanges_Threshold20(diff) ==
    Frac(Cardinality({p \in DOMAIN diff : diff[p] > ChannelThreshold}), RgbChannels)

\* np.sum(diff > 10) / 3 is a float: thirds of a pixel remain
SignificantChanges(diff) ==
    Frac(Cardinality({p \in DOMAIN diff : diff[p] > HeadlineThreshold}), RgbChannels)

process_regular_image(before_file, after_file) ==
    LET before_img == pil_read_rgb(before_file)
        after_img == pil_read_rgb(after_file)
    IN  IF ~before_img.ok THEN before_img
        ELSE IF ~after_img.ok THEN after_img
        ELSE IF ~Broadcastable(after_img.value.shape, before_img.value.shape)
        THEN Raise("ValueError")
        ELSE
          LET a == after_img.value
              b == before_img.value
              s == BroadcastShape(a.shape, b.shape)
              diff == [p \in 1..Size(s) |->
                          LET q == p - 1
                              i == q \div (s[2] * s[3])
                              j == (q \div s[3]) % s[2]
                              c == q % s[3]
                          IN  Abs(BAt3(a, i, j, c) - BAt3(b, i, j, c))]
              total_pixels == Len(diff) \div RgbChannels
              significant_changes == SignificantChanges(diff)
              change_percentage == NumDivInt(
                  Frac(100 * significant_changes.n, significant_changes.d), total_pixels)
              channel_changes ==
                  [red |-> Percentage(ChannelCount(diff, 0, ChannelThreshold), total_pixels),
                   green |-> Percentage(ChannelCount(diff, 1, ChannelThreshold), total_pixels),
                   blue |-> Percentage(ChannelCount(diff, 2, ChannelThreshold), total_pixels)]
          IN  Ok([total_change_percentage |-> change_percentage,
                  channel_changes |-> channel_changes,
                  change_type |-> ChangeType(channel_changes),
                  total_pixels |-> total_pixels,
                  significant_changes |-> significant_changes.n \div significant_changes.d,
                  analysis_type |-> "rgb_based",
                  pixel_change_percentage |-> change_percentage])

\* ------------------------------------------------------------ detect_changes
\* def process_regular_image(before_path, after_path)
process_regular_image_parameters == <<"before_path", "after_path">>

\* Python binds a call when there are no more positional arguments than
\* parameters and every keyword names a parameter not yet bound.
CallBinds(parameters, positional, keywords) ==
    /\ positional <= Len(parameters)
    /\ \A kw \in keywords : \E i \in (positional + 1)..Len(parameters) : parameters[i] = kw
    /\ \A i \in (positional + 1)..Len(parameters) : parameters[i] \in keywords

\* the fallback of detect_changes:
\* process_regular_image(before_path, after_path, change_map_path,
\*                       threshold_factor=threshold_factor)
FallbackCall(before_file, after_file) ==
    IF CallBinds(process_regular_image_parameters, 3, {"threshold_factor"})
    THEN process_regular_image(before_file, after_file)
    ELSE Raise("TypeError")

detect_changes(before_file, after_file, threshold_factor) ==
    LET before_data == rasterio_read(before_file)
        after_data == rasterio_read(after_file)
    IN  IF ~before_data.ok \/ ~after_data.ok
        THEN FallbackCall(before_file, after_file)
        ELSE process_geotiff(before_data.value, after_data.value, threshold_factor)

\* ------------------------------------------------------ Change Map Renderer
\* A path is the sequence of its components; the working directory is <<>>.
\* A file system: the directories that exist, the directories that refuse
\* writes, and the files with their content.
Dirname(path) == SubSeq(path, 1, Len(path) - 1)

Ancestors(name) == {SubSeq(name, 1, i) : i \in 1..Len(name)}

\* os.makedirs(name, exist_ok=True)
makedirs(fs, name) ==
    IF name = <<>> THEN Raise("FileNotFoundError")
    ELSE IF \E p \in Ancestors(name) : p \in DOMAIN fs.files
    THEN Raise("FileExistsError")
    ELSE IF \E p \in Ancestors(name) \ fs.dirs : Dirname(p) \in fs.readonly
    THEN Raise("PermissionError")
    ELSE Ok([fs EXCEPT !.dirs = @ \cup Ancestors(name)])

\* plt.savefig(out_path): creates or replaces the file; its content is the
\* figure, the sequence of the images drawn on it
savefig(fs, out_path, figure) ==
    IF Dirname(out_path) # <<>> /\ Dirname(out_path) \notin fs.dirs
    THEN Raise("FileNotFoundError")
    ELSE IF out_path \in fs.dirs THEN Raise("IsADirectoryError")
    ELSE IF Dirname(out_path) \in fs.readonly THEN Raise("PermissionError")
    ELSE Ok([fs EXCEPT !.files = [p \in DOMAIN @ \cup {out_path} |->
                                     IF p = out_path THEN figure ELSE @[p]]])

BandAxisLimit == 5
MaxGray == 255

SetMin(S) == CHOOSE m \in S : \A x \in S : m <= x

SetMax(S) == CHOOSE m \in S : \A x \in S : m >= x

\* diff_img: the mean over the band axis of |before - after|, rescaled to
\* 0..255 and truncated (the 1e-8 added to ptp is below float32 resolution)
Gray(sums) ==
    LET values == {sums[p] : p \in DOMAIN sums}
        lo == SetMin(values)
        hi == SetMax(values)
    IN  [p \in DOMAIN sums |->
            IF hi = lo THEN 0 ELSE (MaxGray * (sums[p] - lo)) \div (hi - lo)]

ChangeMapImage(before, after) ==
    IF before.shape # after.shape THEN Raise("ValueError")
    ELSE IF Len(before.shape) = 3 /\ before.shape[1] <= BandAxisLimit
    THEN LET s == before.shape
             sums == [p \in 1..(s[2] * s[3]) |->
                         SumInt([c \in 1..s[1] |->
                                    Abs(At3(before, c - 1, (p - 1) \div s[3], (p - 1) % s[3])
                                        - At3(after, c - 1, (p - 1) \div s[3], (p - 1) % s[3]))],
                                s[1])]
         IN  Ok([shape |-> <<s[2], s[3]>>, data |-> Gray(sums)])
    ELSE IF Len(before.shape) = 3 /\ before.shape[3] <= BandAxisLimit
    THEN LET s == before.shape
             sums == [p \in 1..(s[1] * s[2]) |->
                         SumInt([c \in 1..s[3] |->
                                    Abs(At3(before, (p - 1) \div s[2], (p - 1) % s[2], c - 1)
                                        - At3(after, (p - 1) \div s[2], (p - 1) % s[2], c - 1))],
                                s[3])]
         IN  Ok([shape |-> <<s[1], s[2]>>, data |-> Gray(sums)])
    ELSE Raise("ValueError")

\* faulty variant: except ValueError
Catches_OnlyValueError(handler, error) == error = "ValueError"

\* `except Exception` catches every error of the model
Catches(handler, error) == handler = "Exception" \/ handler = error

\* what save_change_map leaves behind when a step raised
Failed(fs, error) ==
    IF Catches("Exception", error)
    THEN [outcome |-> Ok(None), fs |-> fs, log |-> "Change Map ERROR"]
    ELSE [outcome |-> Raise(error), fs |-> fs, log |-> ""]

\* lines 60-66: a figure of its own, saved and closed
SaveFigure(saved, made_fs) ==
    IF ~saved.ok THEN Failed(made_fs, saved.error)
    ELSE [outcome |-> Ok(None), fs |-> saved.value, log |-> "Change Map"]

\* lines 46-66, in the file system that os.makedirs left
RenderInto(diff_img, out_path, made_fs) ==
    IF ~diff_img.ok THEN Failed(made_fs, diff_img.error)
    ELSE SaveFigure(savefig(made_fs, out_path, <<diff_img.value>>), made_fs)

AfterMakedirs(made, before, after, out_path, fs) ==
    IF ~made.ok THEN Failed(fs, made.error)
    ELSE RenderInto(ChangeMapImage(before, after), out_path, made.value)

save_change_map(before, after, out_path, fs) ==
    AfterMakedirs(makedirs(fs, Dirname(out_path)), before, after, out_path, fs)

\* ------------------------------------------------- calls with all arguments
\* An optional argument is <<>> when the caller leaves it out and <<value>>
\* when the caller passes value.
Omitted == <<>>

Argument(optional, default) == IF optional = Omitted THEN default ELSE optional[1]

\* threshold_factor: float = 2.0 / = 1.0 / = 1.0 and Query(1.0, ...)
calculate_pixel_change_percentage_threshold_factor == 2
process_geotiff_threshold_factor == 1
detect_changes_threshold_factor == 1
pixel_threshold_factor == 1

\* faulty variant: a map that could not be saved fails the call
AfterRendering_Strict(report, saved) ==
    [outcome |-> IF saved.outcome.ok /\ saved.log = "Change Map" THEN report
                 ELSE Raise("RuntimeError"),
     fs |-> saved.fs,
     log |-> saved.log]

\* the engine reports unchanged when the renderer returned
AfterRendering(report, saved) ==
    [outcome |-> IF saved.outcome.ok THEN report ELSE saved.outcome,
     fs |-> saved.fs,
     log |-> saved.log]

NotRendered(report, fs) == [outcome |-> report, fs |-> fs, log |-> ""]

\* lines 97-100: the renderer is called once pct is there, on the arrays as
\* transposed, and pct is returned
RenderAndReturn(pct, before_arr, after_arr, change_map_path, fs) ==
    IF ~pct.ok \/ change_map_path = Omitted THEN NotRendered(pct, fs)
    ELSE AfterRendering(pct, save_change_map(NormalizedLayout(before_arr, before_arr),
                                             NormalizedLayout(before_arr, after_arr),
                                             change_map_path[1], fs))

\* calculate_pixel_change_percentage(before_arr, after_arr, threshold_factor,
\* change_map_path)
PixelChangeCall(before_arr, after_arr, threshold_factor, change_map_path, fs) ==
    RenderAndReturn(
        calculate_pixel_change_percentage(
            before_arr, after_arr,
            Argument(threshold_factor, calculate_pixel_change_percentage_threshold_factor)),
        before_arr, after_arr, change_map_path, fs)

\* the report of process_geotiff once its pixel change detector returned;
\* the detector is its last step that can raise
AfterPixelChange(changes, pixel) ==
    [outcome |-> IF pixel.outcome.ok THEN changes ELSE pixel.outcome,
     fs |-> pixel.fs,
     log |-> pixel.log]

\* process_geotiff with a map path: changes is its report for the arrays
\* and the factor; the detector, whose figure the report holds, renders the
\* map before the report is reconciled and returned
ProcessGeotiffRendered(changes, before_data, after_data, change_map_path, fs) ==
    IF ~changes.ok THEN NotRendered(changes, fs)
    ELSE AfterPixelChange(changes,
                          RenderAndReturn(Ok(changes.value.pixel_change_percentage),
                                          before_data, after_data, change_map_path, fs))

ProcessGeotiffCall(before_data, after_data, change_map_path, threshold_factor, fs) ==
    ProcessGeotiffRendered(
        process_geotiff(before_data, after_data,
                        Argument(threshold_factor, process_geotiff_threshold_factor)),
        before_data, after_data, change_map_path, fs)

\* detect_changes(before_path, after_path, change_map_path, threshold_factor)
DetectChangesRead(before_data, after_data, before, after, change_map_path, k, fs) ==
    IF ~before_data.ok \/ ~after_data.ok
    THEN NotRendered(FallbackCall(before, after), fs)
    ELSE ProcessGeotiffCall(before_data.value, after_data.value,
                            change_map_path, <<k>>, fs)

DetectChangesCall(before, after, change_map_path, threshold_factor, fs) ==
    DetectChangesRead(rasterio_read(before), rasterio_read(after), before, after,
                      change_map_path,
                      Argument(threshold_factor, detect_changes_threshold_factor), fs)

\* the engine call of the /generate-summary endpoint: the map goes to img/,
\* which the endpoint creates first
EndpointMapPath == <<"img", "change_map.png">>

EndpointMade(made, before, after, k, fs) ==
    IF ~made.ok THEN NotRendered(Raise(made.error), fs)
    ELSE DetectChangesCall(before, after, <<EndpointMapPath>>, <<k>>, made.value)

EndpointCall(before, after, pixel_threshold_factor_query, fs) ==
    EndpointMade(makedirs(fs, Dirname(EndpointMapPath)), before, after,
                 Argument(pixel_threshold_factor_query, pixel_threshold_factor), fs)

\* ------------------------------------------------------------- Summarizer
\* A dict is a function on its keys.  d.get(key, default) and, as the faulty
\* variant, d[key].
Lookup_Subscript(d, key, default) ==
    IF key \in DOMAIN d THEN Ok(d[key]) ELSE Raise("KeyError")

Lookup(d, key, default) == Ok(IF key \in DOMAIN d THEN d[key] ELSE default)

AllOk(outs) == \A i \in DOMAIN outs : outs[i].ok

FirstError(outs) == outs[SetMin({i \in DOMAIN outs : ~outs[i].ok})]

RECURSIVE Power10(_)
Power10(digits) == IF digits = 0 THEN 1 ELSE 10 * Power10(digits - 1)

\* a / b rounded to the nearest integer, ties to even (b > 0)
RoundDiv(a, b) ==
    LET q == a \div b
        r == a % b
    IN  IF 2 * r > b \/ (2 * r = b /\ q % 2 = 1) THEN q + 1 ELSE q

\* f"{x:.2f}": x rounded to digits decimals, as the integer x * 10^digits
Format(x, digits) ==
    [scaled |-> RoundDiv(x.n * Power10(digits), x.d), digits |-> digits]

NumAbs(a) == [a EXCEPT !.n = Abs(@)]

\* a piece of text and the formatted number that follows it
Piece(text, x, digits) == [text |-> text, number |-> Format(x, digits)]

Str(pieces) == [type |-> "str", pieces |-> pieces]

Tuple(items) == [type |-> "tuple", items |-> items]

One == Frac(1, 1)
Five == Frac(5, 1)
Fifteen == Frac(15, 1)
ConflictThreshold == Frac(10, 1)

format_change_data(change_data) ==
    LET analysis_type == Lookup(change_data, "analysis_type", "unknown")
    IN  IF ~analysis_type.ok THEN analysis_type
        ELSE IF analysis_type.value = "satellite_indices"
        THEN LET top == <<Lookup(change_data, "vegetation_changes", EmptyDict),
                          Lookup(change_data, "urban_changes", EmptyDict),
                          Lookup(change_data, "total_change_percentage", Zero),
                          Lookup(change_data, "pixel_change_percentage", Zero)>>
             IN  IF ~AllOk(top) THEN FirstError(top)
                 ELSE
                   LET veg_changes == top[1].value
                       urban_changes == top[2].value
                       inner == <<Lookup(veg_changes, "loss_percentage", Zero),
                                  Lookup(veg_changes, "gain_percentage", Zero),
                                  Lookup(veg_changes, "net_change", Zero),
                                  Lookup(veg_changes, "mean_ndvi_change", Zero),
                                  Lookup(urban_changes, "growth_percentage", Zero),
                                  Lookup(urban_changes, "decline_percentage", Zero),
                                  Lookup(urban_changes, "net_change", Zero),
                                  Lookup(urban_changes, "mean_ndbi_change", Zero)>>
                   IN  IF ~AllOk(inner) THEN FirstError(inner)
                       ELSE Ok(Str(<<Piece("Satellite Indices: Total", top[3].value, 2),
                                     Piece("Pixel-level", top[4].value, 2),
                                     Piece("Loss", inner[1].value, 2),
                                     Piece("Gain", inner[2].value, 2),
                                     Piece("Net Change", inner[3].value, 2),
                                     Piece("Mean NDVI Change", inner[4].value, 3),
                                     Piece("Growth", inner[5].value, 2),
                                     Piece("Decline", inner[6].value, 2),
                                     Piece("Net Change", inner[7].value, 2),
                                     Piece("Mean NDBI Change", inner[8].value, 3)>>))
        ELSE LET top == <<Lookup(change_data, "channel_changes", EmptyDict),
                          Lookup(change_data, "total_change_percentage", Zero),
                          Lookup(change_data, "pixel_change_percentage", Zero),
                          Lookup(change_data, "change_type", "unknown")>>
             IN  IF ~AllOk(top) THEN FirstError(top)
                 ELSE
                   LET channel_changes == top[1].value
                       inner == <<Lookup(channel_changes, "red", Zero),
                                  Lookup(channel_changes, "green", Zero),
                                  Lookup(channel_changes, "blue", Zero)>>
                   IN  IF ~AllOk(inner) THEN FirstError(inner)
                       ELSE Ok(Str(<<Piece("RGB-based: Total", top[2].value, 2),
                                     Piece("Pixel-level", top[3].value, 2),
                                     Piece(top[4].value, Zero, 0),
                                     Piece("Red Channel", inner[1].value, 2),
                                     Piece("Green Channel", inner[2].value, 2),
                                     Piece("Blue Channel", inner[3].value, 2)>>))

\* the confidence, in hundredths
calculate_confidence(change_data) ==
    LET top == <<Lookup(change_data, "analysis_type", "unknown"),
                 Lookup(change_data, "total_change_percentage", Zero)>>
    IN  IF ~AllOk(top) THEN FirstError(top)
        ELSE LET total_change == top[2].value
             IN  IF top[1].value = "satellite_indices"
                 THEN Ok(IF NumLT(total_change, One) THEN 95
                         ELSE IF NumLT(total_change, Five) THEN 90
                         ELSE IF NumLT(total_change, Fifteen) THEN 85
                         ELSE 80)
                 ELSE Ok(IF NumLT(total_change, One) THEN 85
                         ELSE IF NumLT(total_change, Five) THEN 75
                         ELSE 65)

\* the sentence about one index, or none: d is vegetation_changes or
\* urban_changes, up names the sentence for a net change above 1 and down the
\* one for a net change below -1
NetSentence(d, up, down) ==
    IF IsEmptyDict(d) THEN Ok(<<>>)
    ELSE LET net == Lookup(d, "net_change", Zero)
         IN  IF ~net.ok THEN net
             ELSE IF NumLT(net.value, NumNeg(One))
             THEN Ok(<<Piece(down, NumAbs(net.value), 1)>>)
             ELSE IF NumGT(net.value, One)
             THEN Ok(<<Piece(up, net.value, 1)>>)
             ELSE Ok(<<>>)

generate_rule_based_summary(change_data) ==
    LET top == <<Lookup(change_data, "total_change_percentage", Zero),
                 Lookup(change_data, "change_type", "unknown"),
                 Lookup(change_data, "analysis_type", "unknown")>>
        confidence == calculate_confidence(change_data)
    IN  IF ~AllOk(top) THEN FirstError(top)
        ELSE
          LET total_change == top[1].value
              change_type == top[2].value
          IN  IF top[3].value = "satellite_indices"
              THEN LET dicts == <<Lookup(change_data, "vegetation_changes", EmptyDict),
                                  Lookup(change_data, "urban_changes", EmptyDict)>>
                   IN  IF ~AllOk(dicts) THEN FirstError(dicts)
                       ELSE
                         LET veg == NetSentence(dicts[1].value, "Vegetation growth",
                                                "Vegetation loss")
                             urban == NetSentence(dicts[2].value, "Urban expansion",
                                                  "Urban decline")
                         IN  IF ~veg.ok THEN veg
                             ELSE IF ~urban.ok THEN urban
                             ELSE IF ~confidence.ok THEN confidence
                             ELSE Ok(Tuple(<<Str(<<Piece("Satellite analysis detected",
                                                         total_change, 1)>>
                                                 \o veg.value \o urban.value),
                                             confidence.value>>))
              ELSE LET headline ==
                           IF NumLT(total_change, One) THEN "Minimal changes detected"
                           ELSE IF NumLT(total_change, Five) THEN "Moderate changes detected"
                           ELSE "Significant changes detected"
                       channel_changes == Lookup(change_data, "channel_changes", EmptyDict)
                   IN  IF ~channel_changes.ok THEN channel_changes
                       ELSE
                         LET channels ==
                                 IF change_type = "vegetation"
                                 THEN <<Lookup(channel_changes.value, "green", Zero)>>
                                 ELSE IF change_type = "urban"
                                 THEN <<Lookup(channel_changes.value, "red", Zero)>>
                                 ELSE <<Lookup(channel_changes.value, "red", Zero),
                                        Lookup(channel_changes.value, "green", Zero),
                                        Lookup(channel_changes.value, "blue", Zero)>>
                         IN  IF ~AllOk(channels) THEN FirstError(channels)
                             ELSE IF ~confidence.ok THEN confidence
                             ELSE Ok(Tuple(<<Str(<<Piece(headline, total_change, 1)>>
                                                 \o [i \in DOMAIN channels |->
                                                        Piece(change_type, channels[i].value, 1)]),
                                             confidence.value>>))

\* get_llm: the first model of the list that answers the test query, or None
models_to_try ==
    <<"llama3.2:3b", "llama3:latest", "deepseek-r1:8b", "deepseek-r1:1.5b",
      "deepseek-coder:1.3b">>

get_llm(available) ==
    IF \A i \in DOMAIN models_to_try : models_to_try[i] \notin available
    THEN None
    ELSE [none |-> FALSE,
          model |-> models_to_try[SetMin({i \in DOMAIN models_to_try :
                                            models_to_try[i] \in available})]]

\* left += right: a str takes a str, a tuple takes a tuple
InPlaceAdd(left, right) ==
    IF left.type # right.type THEN Raise("TypeError")
    ELSE IF left.type = "str" THEN Ok(Str(left.pieces \o right.pieces))
    ELSE Ok(Tuple(left.items \o right.items))

conflict_warning == Str(<<Piece("ALERT: war-related destruction", Zero, 0)>>)

\* LLMChain(llm=llm, prompt=prompt) and chain.invoke: no chain is built
\* around None, and the model may fail to answer
ChainInvoke(llm, formatted_data, answers) ==
    IF llm.none THEN Raise("ValidationError")
    ELSE IF ~answers THEN Raise("ConnectionError")
    ELSE Ok(Str(<<Piece(llm.model, Zero, 0)>> \o formatted_data.pieces))

generate_summary(change_data, available, answers) ==
    LET pixel_change == Lookup(change_data, "pixel_change_percentage", Zero)
    IN  IF ~pixel_change.ok THEN pixel_change
        ELSE
          LET conflict_damage_detected == NumGE(pixel_change.value, ConflictThreshold)
              llm == get_llm(available)
              \* the block under `if llm is None`, outside the try
              summary == IF ~llm.none THEN Ok(None)
                         ELSE LET rule_based == generate_rule_based_summary(change_data)
                              IN  IF ~rule_based.ok THEN rule_based
                                  ELSE IF conflict_damage_detected
                                  THEN InPlaceAdd(rule_based.value, conflict_warning)
                                  ELSE rule_based
              \* the try block
              formatted_data == format_change_data(change_data)
              generated == IF ~formatted_data.ok THEN formatted_data
                           ELSE ChainInvoke(llm, formatted_data.value, answers)
              confidence == calculate_confidence(change_data)
              tried == IF ~generated.ok THEN generated
                       ELSE IF ~confidence.ok THEN confidence
                       ELSE Ok(Tuple(<<generated.value, confidence.value>>))
          IN  IF ~summary.ok THEN summary
              ELSE IF tried.ok THEN tried
              ELSE IF Catches("Exception", tried.error)
              THEN generate_rule_based_summary(change_data)
              ELSE tried

\* ------------------------------------------------------------ array buffers
\* Which arrays a call writes in place.  An array is named by the buffer that
\* holds its elements: the two inputs own "before" and "after"; indexing and
\* np.transpose return views of the buffer of their argument; astype and
\* arithmetic allocate the array they return.
InputBuffers == {"before", "after"}

View(buffer) == buffer

AsType(buffer, local) == local

Allocated(local) == local

\* faulty variant: the zero guard written into the sum taken in place in the
\* first band
IndexWrites_InPlace(first_buffer, second_buffer) == {View(first_buffer)}

\* calculate_ndvi, calculate_ndbi: the masked assignment to denominator is the
\* only write in place
IndexWrites(first_buffer, second_buffer) ==
    LET nir == AsType(first_buffer, "nir")
        red == AsType(second_buffer, "red")
        denominator == Allocated("denominator")
    IN  {denominator}

\* calculate_pixel_change_percentage, save_change_map and
\* analyze_satellite_changes: views, copies, reductions and masks only
PixelChangeWrites(before_buffer, after_buffer) == {}

SaveChangeMapWrites(before_buffer, after_buffer) == {}

\* process_regular_image works on arrays it decodes itself
ProcessRegularImageWrites == {}

ProcessGeotiffWrites(before_data, before_buffer, after_buffer) ==
    LET ndvi == IF HasNirBand(before_data)
                THEN IndexWrites(View(before_buffer), View(before_buffer))
                         \cup IndexWrites(View(after_buffer), View(after_buffer))
                ELSE {}
        ndbi == IF HasNirBand(before_data) /\ HasSwirBand(before_data)
                THEN IndexWrites(View(before_buffer), View(before_buffer))
                         \cup IndexWrites(View(after_buffer), View(after_buffer))
                ELSE {}
    IN  ndvi \cup ndbi \cup PixelChangeWrites(before_buffer, after_buffer)
             \cup SaveChangeMapWrites(View(before_buffer), View(after_buffer))

DetectChangesWrites(before, after) ==
    IF rasterio_read(before).ok /\ rasterio_read(after).ok
    THEN ProcessGeotiffWrites(before.array, "before", "after")
    ELSE ProcessRegularImageWrites

\* -------------------------------------------------------------------- inputs
\* The pixels of an input image are of a few kinds.  A raster pixel has the
\* bands blue, green, red, NIR, SWIR (and 1 beyond):
\*   zero   0, 0, 0, 0, 0       every denominator is zero
\*   veg    1, 1, 1, 3, 1       NDVI  1/2, NDBI -1/2
\*   urban  1, 1, 3, 1, 3       NDVI -1/2, NDBI  1/2
\*   edge   10, 10, 9, 11, 9    NDVI 1/10, NDBI -1/10: on the 0.1 threshold
RasterKinds == {"zero", "veg", "urban", "edge"}

Spectrum(kind, band) ==
    CASE kind = "zero" -> 0
      [] kind = "veg" -> IF band = 4 THEN 3 ELSE 1
      [] kind = "urban" -> IF band \in {3, 5} THEN 3 ELSE 1
      [] kind = "edge" -> IF band = 4 THEN 11 ELSE IF band \in {3, 5} THEN 9 ELSE 10

\* A photo pixel is black, white, or a green that differs from black by more
\* than the channel threshold.
PhotoKinds == {"zero", "full", "green"}

PhotoSpectrum(kind, channel) ==
    CASE kind = "zero" -> 0
      [] kind = "full" -> 255
      [] kind = "green" -> IF channel = 1 THEN 25 ELSE 0

\* The first j pixels (in row order) are of kind k1, the others of kind k2.
RasterArray(bands, h, w, k1, k2, j) ==
    Arr(<<bands, h, w>>,
        LAMBDA q : Spectrum(IF q % (h * w) < j THEN k1 ELSE k2, q \div (h * w) + 1))

PhotoArray(h, w, k1, k2, j) ==
    Arr(<<h, w, RgbChannels>>,
        LAMBDA q : PhotoSpectrum(IF q \div RgbChannels < j THEN k1 ELSE k2, q % RgbChannels))

GeoTiff(array) == [format |-> "geotiff", array |-> array]

Photo(array) == [format |-> "photo", array |-> array]

\* every band count the engine tells apart: 1 (broadcasts against any other),
\* 2 and 3 (no index), 4 (NDVI), 5 (NDVI and NDBI), 6 (not taken for a
\* band-major array)
BandCounts == 1..(TransposeLimit + 1)

\* one-row images of every width, and the 2 x 2 square
Extents == {<<1, w>> : w \in 1..MaxWidth} \cup {<<2, 2>>}

RasterShapes == {<<bands, x[1], x[2]>> : bands \in BandCounts, x \in Extents}

\* photos as small as the rasters, and one taller than TransposeLimit
PhotoShapes == Extents \cup {<<TransposeLimit + 1, 1>>}

\* a uniform image before, any two-kind image of the same shape after
RasterPairs ==
    UNION {{<<GeoTiff(RasterArray(s[1], s[2], s[3], k, k, 0)),
              GeoTiff(RasterArray(s[1], s[2], s[3], k1, k2, j))>> :
                k \in {"zero", "veg"}, k1 \in RasterKinds, k2 \in RasterKinds,
                j \in 0..(s[2] * s[3] - 1)} : s \in RasterShapes}

PhotoPairs ==
    UNION {{<<Photo(PhotoArray(s[1], s[2], k, k, 0)),
              Photo(PhotoArray(s[1], s[2], k1, k2, j))>> :
                k \in PhotoKinds, k1 \in PhotoKinds, k2 \in PhotoKinds,
                j \in 0..(s[1] * s[2] - 1)} : s \in PhotoShapes}

\* the same two-kind image before and after
IdenticalPairs ==
    {<<p[2], p[2]>> : p \in RasterPairs \cup PhotoPairs}

\* uniform files of every shape and format, paired in every way: the pairs
\* of different shapes, of different formats and with unreadable files
\* (1 x 1 broadcasts against 2 x 2, 2 x 2 does not against 2 x 3)
MixedExtents == {<<1, 1>>, <<2, 2>>, <<2, 3>>}

UniformFiles ==
    {GeoTiff(RasterArray(bands, x[1], x[2], "veg", "veg", 0)) :
        bands \in BandCounts, x \in MixedExtents}
    \cup {Photo(PhotoArray(x[1], x[2], "full", "full", 0)) : x \in MixedExtents}
    \cup {JunkFile}

MixedPairs == UniformFiles \X UniformFiles

InputPairs == RasterPairs \cup PhotoPairs \cup IdenticalPairs \cup MixedPairs

ThresholdFactors == (-1)..MaxK

\* ------------------------------------------------------------- state machine
VARIABLES
    before_file,    \* the file at before_path
    after_file,     \* the file at after_path
    pc,             \* "idle", or "returned" after a call of the engine
    call,           \* the function called and its threshold factor
    result,         \* what the call returned or raised
    written,        \* the buffers the call wrote in place
    fs,             \* the file system the change maps go to
    log,            \* what the renderer printed during the call
    pyplot,         \* the figures pyplot holds, the current one last
    threads         \* the concurrent invocations of detect_changes

vars == <<before_file, after_file, pc, call, result, written, fs, log, pyplot, threads>>

NoCall == [op |-> "none", threshold_factor |-> 0]

NoResult == Raise("none")

\* pyplot holds no figure outside save_change_map
NoFigures == <<>>

NoThreads == <<>>

\* nothing but a directory that refuses writes
FreshFs == [dirs |-> {<<"locked">>}, readonly |-> {<<"locked">>}, files |-> <<>>]

Init ==
    /\ \E pair \in InputPairs :
          /\ before_file = pair[1]
          /\ after_file = pair[2]
    /\ pc = "idle"
    /\ call = NoCall
    /\ result = NoResult
    /\ written = {}
    /\ fs = FreshFs
    /\ log = ""
    /\ pyplot = NoFigures
    /\ threads = NoThreads

\* the buffers a call of op on the two inputs writes
Writes(op) ==
    CASE op = "detect_changes" -> DetectChangesWrites(before_file, after_file)
      [] op = "process_geotiff" ->
             ProcessGeotiffWrites(before_file.array, "before", "after")
      [] op = "process_regular_image" -> ProcessRegularImageWrites
      [] op = "calculate_pixel_change_percentage" ->
             PixelChangeWrites("before", "after")
      [] op \in {"calculate_ndvi", "calculate_ndbi"} ->
             IndexWrites(View("before"), View("after"))
      [] op = "save_change_map" -> SaveChangeMapWrites("before", "after")
      [] op = "generate_change_summary" -> DetectChangesWrites(before_file, after_file)

Returns(op, k, outcome) ==
    /\ pc = "idle"
    /\ pc' = "returned"
    /\ call' = [op |-> op, threshold_factor |-> k]
    /\ result' = outcome
    /\ written' = Writes(op)
    /\ UNCHANGED <<before_file, after_file, fs, log, pyplot, threads>>

HasArrays == before_file.array # NoArray /\ after_file.array # NoArray

BothRasters == before_file.format = "geotiff" /\ after_file.format = "geotiff"

CallDetectChanges ==
    \E k \in ThresholdFactors :
        Returns("detect_changes", k, detect_changes(before_file, after_file, k))

CallProcessGeotiff ==
    /\ BothRasters
    /\ \E k \in ThresholdFactors :
          Returns("process_geotiff", k,
                  process_geotiff(before_file.array, after_file.array, k))

CallProcessRegularImage ==
    Returns("process_regular_image", 0, process_regular_image(before_file, after_file))

CallPixelChange ==
    /\ HasArrays
    /\ \E k \in ThresholdFactors :
          Returns("calculate_pixel_change_percentage", k,
                  calculate_pixel_change_percentage(before_file.array, after_file.array, k))

\* the index calculators, on the last band of one raster and the first of the other
LastBand(a) == Band(a, a.shape[1] - 1)

CallNdvi ==
    /\ BothRasters
    /\ Returns("calculate_ndvi", 0,
               calculate_ndvi(LastBand(before_file.array), Band(after_file.array, 0)))

CallNdbi ==
    /\ BothRasters
    /\ Returns("calculate_ndbi", 0,
               calculate_ndbi(LastBand(before_file.array), Band(after_file.array, 0)))

\* the caller is done with the result; the engine keeps nothing
Return ==
    /\ pc = "returned"
    /\ pc' = "idle"
    /\ call' = NoCall
    /\ result' = NoResult
    /\ written' = {}
    /\ UNCHANGED <<before_file, after_file, fs, log, pyplot, threads>>

Next ==
    \/ CallDetectChanges
    \/ CallProcessGeotiff
    \/ CallProcessRegularImage
    \/ CallPixelChange
    \/ CallNdvi
    \/ CallNdbi
    \/ Return

Spec == Init /\ [][Next]_vars

\* ------------------------------------------------------------------ claims
Returned(op) == pc = "returned" /\ call.op = op

\* a call of detect_changes or of process_geotiff has returned a report
RasterReport ==
    /\ pc = "returned"
    /\ call.op \in {"detect_changes", "process_geotiff"}
    /\ result.ok

ReportKeys == DOMAIN result.value

\* C1: in every report that detect_changes (or process_geotiff) returns,
\* pixel_change_percentage and total_change_percentage are present and
\* total_change_percentage is the larger of the sum of the index shares and
\* pixel_change_percentage; a report of process_regular_image has both
\* fields, equal to its RGB aggregate.
C1_HeadlineIsMaximum ==
    /\ RasterReport =>
          /\ {"pixel_change_percentage", "total_change_percentage"} \subseteq ReportKeys
          /\ result.value.total_change_percentage
               = NumMax(IndexTotal(result.value.vegetation_changes,
                                   result.value.urban_changes),
                        result.value.pixel_change_percentage)
          /\ NumGE(result.value.total_change_percentage,
                   result.value.pixel_change_percentage)
    /\ (Returned("process_regular_image") /\ result.ok) =>
          /\ {"pixel_change_percentage", "total_change_percentage"} \subseteq ReportKeys
          /\ result.value.total_change_percentage = result.value.pixel_change_percentage

\* detect_changes returned a report whose index shares sum to more than its
\* pixel change percentage, which is not zero
C1_Witness ==
    /\ Returned("detect_changes")
    /\ result.ok
    /\ NumGT(result.value.pixel_change_percentage, Zero)
    /\ NumGT(IndexTotal(result.value.vegetation_changes, result.value.urban_changes),
             result.value.pixel_change_percentage)

\* C2: when a raster open fails and both files are readable as images,
\* detect_changes returns an rgb_based report with channel_changes,
\* change_type, pixel_change_percentage and total_change_percentage.
C2_FallbackReturnsRgbReport ==
    (/\ Returned("detect_changes")
     /\ ~rasterio_read(before_file).ok \/ ~rasterio_read(after_file).ok
     /\ pil_read_rgb(before_file).ok /\ pil_read_rgb(after_file).ok
     /\ before_file.array.shape = after_file.array.shape)
    => /\ result.ok
       /\ result.value.analysis_type = "rgb_based"
       /\ {"channel_changes", "change_type", "pixel_change_percentage",
           "total_change_percentage"} \subseteq ReportKeys

ReadErrors == {"RasterioIOError", "UnidentifiedImageError"}

\* C3: when neither pathway can open one of the files, detect_changes raises
\* the read error of the failed open.
C3_ReadErrorSurfaces ==
    (/\ Returned("detect_changes")
     /\ \E file \in {before_file, after_file} :
           ~rasterio_read(file).ok /\ ~pil_read_rgb(file).ok)
    => ~result.ok /\ result.error \in ReadErrors

\* the shapes of the two arrays that the returned call was given
ArgumentShapes ==
    IF call.op \in {"calculate_ndvi", "calculate_ndbi"}
    THEN <<LastBand(before_file.array).shape, Band(after_file.array, 0).shape>>
    ELSE <<before_file.array.shape, after_file.array.shape>>

\* C4: a two-array operation given arrays of different shapes raises an error.
C4_ShapeMismatchRaises ==
    (/\ pc = "returned"
     /\ call.op \in {"calculate_ndvi", "calculate_ndbi",
                     "calculate_pixel_change_percentage", "process_geotiff"}
     /\ ArgumentShapes[1] # ArgumentShapes[2])
    => ~result.ok

\* the band count that both rasters of the pair have
PairBands ==
    IF before_file.array.shape[1] < after_file.array.shape[1]
    THEN before_file.array.shape[1] ELSE after_file.array.shape[1]

\* C5 as claimed: the report has the key vegetation_changes exactly when the
\* rasters have at least 4 bands, and the key urban_changes exactly when they
\* have at least 5.
C5_FieldsOmitted ==
    RasterReport =>
        /\ "vegetation_changes" \in ReportKeys <=> PairBands >= 4
        /\ "urban_changes" \in ReportKeys <=> PairBands >= 5

\* C5, amended: the report always has both keys; vegetation_changes holds
\* statistics exactly when the rasters have at least 4 bands and
\* urban_changes exactly when they have at least 5, and each is the empty
\* mapping otherwise.
C5_StatisticsPresence ==
    RasterReport =>
        /\ {"vegetation_changes", "urban_changes"} \subseteq ReportKeys
        /\ IF PairBands >= 4
           THEN DOMAIN result.value.vegetation_changes
                  = {"loss_percentage", "gain_percentage", "net_change", "mean_ndvi_change"}
           ELSE result.value.vegetation_changes = EmptyDict
        /\ IF PairBands >= 5
           THEN DOMAIN result.value.urban_changes
                  = {"growth_percentage", "decline_percentage", "net_change",
                     "mean_ndbi_change"}
           ELSE result.value.urban_changes = EmptyDict

\* a report for a pair of 4-band rasters: vegetation statistics, no urban ones
C5_Witness ==
    /\ RasterReport
    /\ before_file.array.shape[1] = 4
    /\ after_file.array.shape[1] = 4
    /\ ~IsEmptyDict(result.value.vegetation_changes)
    /\ IsEmptyDict(result.value.urban_changes)

\* C6: a report is labelled satellite_indices only when vegetation statistics
\* were computed, and rgb_based only when it has channel_changes and
\* change_type.
C6_AnalysisTypeIsTheBranch ==
    RasterReport =>
        /\ result.value.analysis_type = "satellite_indices"
             => ~IsEmptyDict(result.value.vegetation_changes)
        /\ result.value.analysis_type = "rgb_based"
             => {"channel_changes", "change_type"} \subseteq ReportKeys

PixelChange(k) ==
    calculate_pixel_change_percentage(before_file.array, after_file.array, k)

\* C7: the pixel change percentage returned for a threshold factor is at
\* least the one that every larger threshold factor gives for the same pair.
C7_MonotoneInThresholdFactor ==
    (Returned("calculate_pixel_change_percentage") /\ result.ok) =>
        \A k2 \in ThresholdFactors :
            call.threshold_factor <= k2 =>
                /\ PixelChange(k2).ok
                /\ NumGE(result.value, PixelChange(k2).value)

\* a pair for which the percentage strictly falls between two positive factors
C7_Witness ==
    /\ Returned("calculate_pixel_change_percentage")
    /\ result.ok
    /\ call.threshold_factor > 0
    /\ \E k2 \in ThresholdFactors :
          /\ call.threshold_factor < k2
          /\ NumGT(result.value, PixelChange(k2).value)

AllZero(dict) == \A key \in DOMAIN dict : dict[key] = Zero

\* C8: for identical before and after arrays process_geotiff returns
\* pixel_change_percentage 0, total_change_percentage 0 and vegetation and
\* urban statistics that are all 0, for every threshold factor.
C8_IdenticalArraysNoChange ==
    (Returned("process_geotiff") /\ before_file.array = after_file.array) =>
        /\ result.ok
        /\ result.value.pixel_change_percentage = Zero
        /\ result.value.total_change_percentage = Zero
        /\ AllZero(result.value.vegetation_changes)
        /\ AllZero(result.value.urban_changes)

\* identical 5-band rasters that are not uniform, under a negative factor
C8_Witness ==
    /\ Returned("process_geotiff")
    /\ before_file.array = after_file.array
    /\ before_file.array.shape[1] = 5
    /\ \E p \in DOMAIN before_file.array.data :
          before_file.array.data[p] # before_file.array.data[1]
    /\ call.threshold_factor < 0
    /\ ~IsEmptyDict(result.value.urban_changes)

\* an all-zero photo before, an all-255 photo of the same shape after
BlackToWhite ==
    /\ before_file.format = "photo"
    /\ after_file.format = "photo"
    /\ before_file.array.shape = after_file.array.shape
    /\ \A p \in DOMAIN before_file.array.data : before_file.array.data[p] = 0
    /\ \A p \in DOMAIN after_file.array.data : after_file.array.data[p] = 255

\* C9 as claimed: 100% of the pixels changed, for every factor k >= 0.
C9_AllPixelsChanged ==
    (/\ Returned("calculate_pixel_change_percentage")
     /\ BlackToWhite
     /\ call.threshold_factor >= 0)
    => result.ok /\ result.value = Frac(100, 1)

\* C9, amended: 0% of the pixels changed, for every factor: the standard
\* deviation is 0, the threshold is the common magnitude 255, and no pixel
\* exceeds it.
C9_NoPixelChanged ==
    (Returned("calculate_pixel_change_percentage") /\ BlackToWhite)
    => result.ok /\ result.value = Zero

\* the pair is taller than TransposeLimit, so it is taken as pixel-major
C9_Witness ==
    /\ Returned("calculate_pixel_change_percentage")
    /\ BlackToWhite
    /\ before_file.array.shape[1] > TransposeLimit
    /\ call.threshold_factor = 1
    /\ result.ok

Swapped == process_geotiff(after_file.array, before_file.array, call.threshold_factor)

\* C10: for a pair of rasters of the same shape, process_geotiff on the
\* swapped pair returns the same pixel_change_percentage and
\* total_change_percentage, the vegetation loss and gain exchanged, the urban
\* growth and decline exchanged, and the net changes and mean index changes
\* negated; the same holds of any pair for which both orders return a report.
C10_SwapSymmetry ==
    (Returned("process_geotiff") /\ result.ok) =>
        /\ before_file.array.shape = after_file.array.shape => Swapped.ok
        /\ Swapped.ok =>
            LET r == result.value
                s == Swapped.value
            IN  /\ s.pixel_change_percentage = r.pixel_change_percentage
                /\ s.total_change_percentage = r.total_change_percentage
                /\ IsEmptyDict(s.vegetation_changes) <=> IsEmptyDict(r.vegetation_changes)
                /\ IsEmptyDict(s.urban_changes) <=> IsEmptyDict(r.urban_changes)
                /\ ~IsEmptyDict(r.vegetation_changes) =>
                      /\ s.vegetation_changes.loss_percentage
                           = r.vegetation_changes.gain_percentage
                      /\ s.vegetation_changes.gain_percentage
                           = r.vegetation_changes.loss_percentage
                      /\ s.vegetation_changes.net_change
                           = NumNeg(r.vegetation_changes.net_change)
                      /\ s.vegetation_changes.mean_ndvi_change
                           = NumNeg(r.vegetation_changes.mean_ndvi_change)
                /\ ~IsEmptyDict(r.urban_changes) =>
                      /\ s.urban_changes.growth_percentage
                           = r.urban_changes.decline_percentage
                      /\ s.urban_changes.decline_percentage
                           = r.urban_changes.growth_percentage
                      /\ s.urban_changes.net_change = NumNeg(r.urban_changes.net_change)
                      /\ s.urban_changes.mean_ndbi_change
                           = NumNeg(r.urban_changes.mean_ndbi_change)

\* a 5-band pair with a vegetation net change, an urban net change and a
\* pixel change percentage that are all not zero
C10_Witness ==
    /\ Returned("process_geotiff")
    /\ result.ok
    /\ ~IsEmptyDict(result.value.urban_changes)
    /\ result.value.vegetation_changes.net_change # Zero
    /\ result.value.urban_changes.net_change # Zero
    /\ result.value.pixel_change_percentage # Zero
    /\ result.value.total_change_percentage # result.value.pixel_change_percentage

MapShapes ==
    {<<RgbChannels, 1, 2>>, <<SwirBandCount, 2, 2>>,
     <<SwirBandCount, BandAxisLimit + 1, 1>>,
     <<BandAxisLimit + 1, 1, 2>>, <<BandAxisLimit + 1, 1, BandAxisLimit + 1>>}

MapRasterPairs ==
    UNION {{<<GeoTiff(RasterArray(s[1], s[2], s[3], k, k, 0)),
              GeoTiff(RasterArray(s[1], s[2], s[3], k1, k2, j))>> :
                k \in {"zero", "veg"}, k1 \in {"zero", "urban"},
                k2 \in {"zero", "urban"}, j \in 0..1} : s \in MapShapes}

\* pairs of different shapes (1 band broadcasts against 3, 2 bands do not),
\* photos, and a file no reader opens
MapMixedFiles ==
    {GeoTiff(RasterArray(bands, 2, 2, "veg", "urban", 1)) : bands \in 1..RgbChannels}
    \cup {Photo(PhotoArray(2, 2, "full", "zero", 1)), JunkFile}

MapPairs == MapRasterPairs \cup (MapMixedFiles \X MapMixedFiles)

\* a path in directories that do not exist yet, a bare file name, a path in
\* the directory that refuses writes
MapPaths == {<<"out", "maps", "map.png">>, <<"map.png">>, <<"locked", "map.png">>}

OptionalPaths == {Omitted} \cup {<<path>> : path \in MapPaths}

OptionalFactors == {Omitted} \cup {<<k>> : k \in 0..MaxK}

\* an older run left a map at the nested path
StaleImage == <<[shape |-> <<1, 1>>, data |-> <<0>>]>>

UsedFs ==
    [dirs |-> {<<"locked">>, <<"out">>, <<"out", "maps">>},
     readonly |-> {<<"locked">>},
     files |-> [p \in {<<"out", "maps", "map.png">>} |-> StaleImage]]

InitMap ==
    /\ \E pair \in MapPairs :
          /\ before_file = pair[1]
          /\ after_file = pair[2]
    /\ pc = "idle"
    /\ call = NoCall
    /\ result = NoResult
    /\ written = {}
    /\ fs \in {FreshFs, UsedFs}
    /\ log = ""
    /\ pyplot = NoFigures
    /\ threads = NoThreads

MapReturns(op, k, path, r) ==
    /\ pc = "idle"
    /\ pc' = "returned"
    /\ call' = [op |-> op, threshold_factor |-> k, change_map_path |-> path]
    /\ result' = r.outcome
    /\ fs' = r.fs
    /\ log' = r.log
    /\ written' = Writes(op)
    /\ UNCHANGED <<before_file, after_file, pyplot, threads>>

MapDetectChanges ==
    \E k \in OptionalFactors, path \in OptionalPaths :
        MapReturns("detect_changes", k, path,
                   DetectChangesCall(before_file, after_file, path, k, fs))

MapProcessGeotiff ==
    /\ BothRasters
    /\ \E k \in OptionalFactors, path \in OptionalPaths :
          MapReturns("process_geotiff", k, path,
                     ProcessGeotiffCall(before_file.array, after_file.array, path, k, fs))

MapPixelChange ==
    /\ HasArrays
    /\ \E k \in OptionalFactors, path \in OptionalPaths :
          MapReturns("calculate_pixel_change_percentage", k, path,
                     PixelChangeCall(before_file.array, after_file.array, k, path, fs))

MapSaveChangeMap ==
    /\ HasArrays
    /\ \E path \in MapPaths :
          MapReturns("save_change_map", Omitted, <<path>>,
                     save_change_map(before_file.array, after_file.array, path, fs))

MapEndpoint ==
    \E k \in OptionalFactors :
        MapReturns("generate_change_summary", k, <<EndpointMapPath>>,
                   EndpointCall(before_file, after_file, k, fs))

NextMap ==
    \/ MapDetectChanges
    \/ MapProcessGeotiff
    \/ MapPixelChange
    \/ MapSaveChangeMap
    \/ MapEndpoint

SpecMap == InitMap /\ [][NextMap]_vars

\* the result of the returned call when it is made without a change map path
WithoutMap ==
    CASE call.op = "detect_changes" ->
             DetectChangesCall(before_file, after_file, Omitted,
                               call.threshold_factor, FreshFs).outcome
      [] call.op = "process_geotiff" ->
             ProcessGeotiffCall(before_file.array, after_file.array, Omitted,
                                call.threshold_factor, FreshFs).outcome
      [] call.op = "calculate_pixel_change_percentage" ->
             PixelChangeCall(before_file.array, after_file.array,
                             call.threshold_factor, Omitted, FreshFs).outcome

EngineReturned ==
    /\ pc = "returned"
    /\ call.op \in {"detect_changes", "process_geotiff",
                    "calculate_pixel_change_percentage"}

\* C12: for every input pair and threshold factor, what detect_changes,
\* process_geotiff and calculate_pixel_change_percentage return with a change
\* map path equals what they return without one, whether the renderer saved
\* the map or failed.
C12_MapLeavesReportAlone ==
    (EngineReturned /\ call.change_map_path # Omitted) => result = WithoutMap

\* detect_changes returned a report and the map was written where asked
C12_Witness ==
    /\ Returned("detect_changes")
    /\ call.change_map_path = << <<"out", "maps", "map.png">> >>
    /\ result.ok
    /\ log = "Change Map"
    /\ fs.files[<<"out", "maps", "map.png">>] # StaleImage

\* C13: when save_change_map fails (unwritable path, bare file name,
\* mismatched or unsupported shape) it returns normally, and the engine call
\* around it still returns its complete numeric result.
C13_RenderFailureContained ==
    /\ Returned("save_change_map") => result.ok
    /\ (EngineReturned /\ log = "Change Map ERROR") =>
           /\ result.ok
           /\ call.op # "calculate_pixel_change_percentage" =>
                  {"pixel_change_percentage", "total_change_percentage",
                   "analysis_type"} \subseteq DOMAIN result.value

\* detect_changes returned its report although the map path was unwritable
C13_Witness ==
    /\ Returned("detect_changes")
    /\ call.change_map_path = << <<"locked", "map.png">> >>
    /\ log = "Change Map ERROR"
    /\ result.ok
    /\ result.value.pixel_change_percentage # Zero

\* a pair the renderer supports: equal shapes and a band axis of at most 5
ValidMapPair ==
    /\ HasArrays
    /\ ChangeMapImage(before_file.array, after_file.array).ok

\* C14: save_change_map on a valid pair, with a path in directories that do
\* not exist yet or a bare file name, leaves the parent directories created
\* and the image in a file at that path, and writes no other file.
C14_WritesTheMap ==
    (/\ Returned("save_change_map")
     /\ ValidMapPair
     /\ call.change_map_path[1] \in {<<"out", "maps", "map.png">>, <<"map.png">>})
    => LET out_path == call.change_map_path[1]
       IN  /\ Ancestors(Dirname(out_path)) \subseteq fs.dirs
           /\ out_path \in DOMAIN fs.files
           /\ fs.files[out_path]
                = <<ChangeMapImage(before_file.array, after_file.array).value>>
           /\ DOMAIN fs.files \subseteq {out_path} \cup DOMAIN UsedFs.files

\* the result of the returned call when the caller passes 1 as the factor
WithFactorOne ==
    CASE call.op = "detect_changes" ->
             DetectChangesCall(before_file, after_file, call.change_map_path,
                               <<1>>, FreshFs).outcome
      [] call.op = "process_geotiff" ->
             ProcessGeotiffCall(before_file.array, after_file.array,
                                call.change_map_path, <<1>>, FreshFs).outcome
      [] call.op = "calculate_pixel_change_percentage" ->
             PixelChangeCall(before_file.array, after_file.array, <<1>>,
                             call.change_map_path, FreshFs).outcome
      [] call.op = "generate_change_summary" ->
             EndpointCall(before_file, after_file, <<1>>, FreshFs).outcome

\* C15: at every entry point that takes a threshold factor, a call that
\* leaves it out returns what the call with the factor 1 returns.
C15_DefaultFactorIsOne ==
    (/\ pc = "returned"
     /\ call.op \in {"detect_changes", "process_geotiff",
                     "calculate_pixel_change_percentage", "generate_change_summary"}
     /\ call.threshold_factor = Omitted)
    => result = WithFactorOne

\* the entry points other than calculate_pixel_change_percentage do
C15_DefaultElsewhere ==
    (/\ pc = "returned"
     /\ call.op \in {"detect_changes", "process_geotiff", "generate_change_summary"}
     /\ call.threshold_factor = Omitted)
    => result = WithFactorOne

\* ------------------------------------------------ specification: summarizer
\* Reports of both analysis types, each optional field absent, empty or
\* filled, with headline figures on both sides of every threshold the
\* summarizer tests (1, 5, 15 for the confidence, 10 for the alert).
FieldKinds == {"absent", "empty", "down", "up"}

\* vegetation_changes: a loss of half the pixels, or a gain of 1/2 %
VegetationDict(kind) ==
    CASE kind = "empty" -> EmptyDict
      [] kind = "down" -> [loss_percentage |-> Frac(50, 1), gain_percentage |-> Zero,
                           net_change |-> Frac(-50, 1), mean_ndvi_change |-> Frac(-1, 4)]
      [] kind = "up" -> [loss_percentage |-> Zero, gain_percentage |-> Frac(1, 2),
                         net_change |-> Frac(1, 2), mean_ndvi_change |-> Frac(1, 8)]

\* urban_changes: a decline of 3/2 %, or a growth of a quarter of the pixels
UrbanDict(kind) ==
    CASE kind = "empty" -> EmptyDict
      [] kind = "down" -> [growth_percentage |-> Zero, decline_percentage |-> Frac(3, 2),
                           net_change |-> Frac(-3, 2), mean_ndbi_change |-> Frac(-1, 8)]
      [] kind = "up" -> [growth_percentage |-> Frac(25, 1), decline_percentage |-> Zero,
                         net_change |-> Frac(25, 1), mean_ndbi_change |-> Frac(1, 4)]

ChannelDict(kind) ==
    CASE kind = "empty" -> EmptyDict
      [] kind = "up" -> [red |-> Frac(25, 1), green |-> Frac(50, 1), blue |-> Zero]

\* total_change_percentage and pixel_change_percentage, the first at least
\* the second
Headlines ==
    {<<Frac(1, 2), Zero>>, <<Frac(3, 1), Frac(3, 1)>>, <<Frac(10, 1), Frac(10, 1)>>,
     <<Frac(20, 1), Frac(5, 1)>>, <<Frac(20, 1), Frac(20, 1)>>}

SummaryReport(analysis_type, veg, urban, channel, headline, change_type) ==
    LET keys == {"analysis_type", "total_change_percentage",
                 "pixel_change_percentage", "change_type"}
                \cup (IF veg = "absent" THEN {} ELSE {"vegetation_changes"})
                \cup (IF urban = "absent" THEN {} ELSE {"urban_changes"})
                \cup (IF channel = "absent" THEN {} ELSE {"channel_changes"})
    IN  [key \in keys |->
            CASE key = "analysis_type" -> analysis_type
              [] key = "total_change_percentage" -> headline[1]
              [] key = "pixel_change_percentage" -> headline[2]
              [] key = "change_type" -> change_type
              [] key = "vegetation_changes" -> VegetationDict(veg)
              [] key = "urban_changes" -> UrbanDict(urban)
              [] key = "channel_changes" -> ChannelDict(channel)]

SummaryReports ==
    {SummaryReport(analysis_type, veg, urban, channel, headline, change_type) :
        analysis_type \in {"satellite_indices", "rgb_based"},
        veg \in FieldKinds, urban \in FieldKinds,
        channel \in {"absent", "empty", "up"},
        headline \in Headlines, change_type \in {"vegetation", "mixed"}}

\* no model answers, or the second of the list does
ModelSets == {{}, {"llama3:latest"}}

InitSummary ==
    /\ before_file = JunkFile
    /\ after_file = JunkFile
    /\ pc = "idle"
    /\ call = NoCall
    /\ result = NoResult
    /\ written = {}
    /\ fs = FreshFs
    /\ log = ""
    /\ pyplot = NoFigures
    /\ threads = NoThreads

SummaryReturns(op, change_data, available, answers, outcome) ==
    /\ pc = "idle"
    /\ pc' = "returned"
    /\ call' = [op |-> op, change_data |-> change_data,
                available |-> available, answers |-> answers]
    /\ result' = outcome
    /\ UNCHANGED <<before_file, after_file, written, fs, log, pyplot, threads>>

CallFormatChangeData ==
    \E change_data \in SummaryReports :
        SummaryReturns("format_change_data", change_data, {}, FALSE,
                       format_change_data(change_data))

CallCalculateConfidence ==
    \E change_data \in SummaryReports :
        SummaryReturns("calculate_confidence", change_data, {}, FALSE,
                       calculate_confidence(change_data))

CallRuleBasedSummary ==
    \E change_data \in SummaryReports :
        SummaryReturns("generate_rule_based_summary", change_data, {}, FALSE,
                       generate_rule_based_summary(change_data))

CallGenerateSummary ==
    \E change_data \in SummaryReports, available \in ModelSets, answers \in BOOLEAN :
        SummaryReturns("generate_summary", change_data, available, answers,
                       generate_summary(change_data, available, answers))

NextSummary ==
    \/ CallFormatChangeData
    \/ CallCalculateConfidence
    \/ CallRuleBasedSummary
    \/ CallGenerateSummary
    \/ Return

SpecSummary == InitSummary /\ [][NextSummary]_vars

\* C17: format_change_data, calculate_confidence and
\* generate_rule_based_summary return a result, and raise nothing, for every
\* report of either analysis type, whichever of vegetation_changes,
\* urban_changes and channel_changes are absent or empty.
C17_SummarizerTotal ==
    (/\ pc = "returned"
     /\ call.op \in {"format_change_data", "calculate_confidence",
                     "generate_rule_based_summary"})
    => /\ result.ok
       /\ call.op = "format_change_data" => result.value.type = "str"
       /\ call.op = "generate_rule_based_summary" =>
              result.value.type = "tuple" /\ Len(result.value.items) = 2

\* the rule-based summary of a satellite report without vegetation_changes,
\* with an empty urban_changes
C17_Witness ==
    /\ Returned("generate_rule_based_summary")
    /\ result.ok
    /\ call.change_data.analysis_type = "satellite_indices"
    /\ "vegetation_changes" \notin DOMAIN call.change_data
    /\ "channel_changes" \notin DOMAIN call.change_data
    /\ "urban_changes" \in DOMAIN call.change_data
    /\ IsEmptyDict(call.change_data.urban_changes)

\* C18: generate_summary returns a (summary, confidence) pair for every
\* report; when no model is available or the model fails to answer, the pair
\* is that of generate_rule_based_summary, whatever pixel_change_percentage.
C18_AlwaysReturnsAPair ==
    Returned("generate_summary") =>
        /\ result.ok
        /\ result.value.type = "tuple"
        /\ Len(result.value.items) = 2
        /\ (get_llm(call.available).none \/ ~call.answers) =>
               result = generate_rule_based_summary(call.change_data)

\* what holds of generate_summary: away from the alert, or with a model
C18_BelowTheAlert ==
    (/\ Returned("generate_summary")
     /\ \/ ~get_llm(call.available).none
        \/ NumLT(call.change_data.pixel_change_percentage, ConflictThreshold))
    => /\ result.ok
       /\ result.value.type = "tuple"
       /\ Len(result.value.items) = 2
       /\ (get_llm(call.available).none \/ ~call.answers) =>
              result = generate_rule_based_summary(call.change_data)

\* ------------------------------------------- specification: concurrent calls
\* Two threads of one process, each in detect_changes on its own pair with
\* its own map path.  The numeric part of a call works on local arrays; the
\* renderer goes through pyplot, one call of plt at a step.
Threads == 1..2

ThreadPath(t) == <<"out", IF t = 1 THEN "first.png" ELSE "second.png">>

\* 3-band rasters whose maps differ, a pair of different shapes that
\* broadcasts, and a pair of photos
ThreadPairs ==
    {<<GeoTiff(RasterArray(RgbChannels, 1, 2, "zero", "zero", 0)),
       GeoTiff(RasterArray(RgbChannels, 1, 2, k1, k2, 1))>> :
         k1 \in {"zero", "urban"}, k2 \in {"zero", "urban"}}
    \cup {<<GeoTiff(RasterArray(1, 1, 2, "zero", "zero", 0)),
            GeoTiff(RasterArray(RgbChannels, 1, 2, "veg", "urban", 1))>>,
          <<Photo(PhotoArray(1, 2, "zero", "zero", 0)),
            Photo(PhotoArray(1, 2, "full", "zero", 1))>>}

NoImage == [shape |-> <<>>, data |-> <<>>]

InitThreads ==
    /\ before_file = JunkFile
    /\ after_file = JunkFile
    /\ pc = "idle"
    /\ call = NoCall
    /\ result = NoResult
    /\ written = {}
    /\ fs = FreshFs
    /\ log = ""
    /\ pyplot = NoFigures
    /\ \E pairs \in [Threads -> ThreadPairs] :
          threads = [t \in Threads |->
                        [pc |-> "start",
                         before |-> pairs[t][1],
                         after |-> pairs[t][2],
                         change_map_path |-> ThreadPath(t),
                         report |-> NoResult,
                         diff_img |-> NoImage,
                         result |-> NoResult]]

\* thread t moves on; the rest of the engine state stays
ThreadStep(t, next) ==
    /\ threads' = [threads EXCEPT ![t] = next]
    /\ UNCHANGED <<before_file, after_file, pc, call, result, written, log>>

\* gcf(): the current figure, a new empty one when pyplot holds none
Gcf(figures) == IF figures = <<>> THEN << <<>> >> ELSE figures

\* an exception in save_change_map ends it; the call returns its report
ThreadCaught(me, error) ==
    [me EXCEPT !.pc = "done",
               !.result = IF Catches("Exception", error) THEN me.report
                          ELSE Raise(error)]

\* lines 109-115 and 79-96: read both files and compute the report
ThreadAnalyzed(t, me, report) ==
    /\ me.pc = "start"
    /\ ThreadStep(t, IF report.ok
                     THEN [me EXCEPT !.pc = "makedirs", !.report = report]
                     ELSE [me EXCEPT !.pc = "done", !.result = report])
    /\ UNCHANGED <<fs, pyplot>>

ThreadAnalyze(t) ==
    ThreadAnalyzed(t, threads[t],
                   DetectChangesCall(threads[t].before, threads[t].after,
                                     Omitted, Omitted, fs).outcome)

\* lines 44-58: the directories and the image
ThreadRendered(t, me, made, diff_img) ==
    /\ me.pc = "makedirs"
    /\ IF ~made.ok
       THEN ThreadStep(t, ThreadCaught(me, made.error)) /\ UNCHANGED fs
       ELSE /\ fs' = made.value
            /\ ThreadStep(t, IF diff_img.ok
                             THEN [me EXCEPT !.pc = "figure",
                                             !.diff_img = diff_img.value]
                             ELSE ThreadCaught(me, diff_img.error))
    /\ UNCHANGED pyplot

ThreadMakedirs(t) ==
    ThreadRendered(t, threads[t],
                   makedirs(fs, Dirname(threads[t].change_map_path)),
                   ChangeMapImage(NormalizedLayout(threads[t].before.array,
                                                   threads[t].before.array),
                                  NormalizedLayout(threads[t].before.array,
                                                   threads[t].after.array)))

\* line 60: plt.figure(figsize=(8, 8))
ThreadFigure(t) ==
    /\ threads[t].pc = "figure"
    /\ pyplot' = Append(pyplot, <<>>)
    /\ ThreadStep(t, [threads[t] EXCEPT !.pc = "axis"])
    /\ UNCHANGED fs

\* line 61: plt.axis('off')
ThreadAxis(t) ==
    /\ threads[t].pc = "axis"
    /\ pyplot' = Gcf(pyplot)
    /\ ThreadStep(t, [threads[t] EXCEPT !.pc = "imshow"])
    /\ UNCHANGED fs

\* line 62: plt.imshow(diff_img, cmap='hot') draws on the current figure
ThreadImshow(t) ==
    /\ threads[t].pc = "imshow"
    /\ pyplot' = [Gcf(pyplot) EXCEPT ![Len(Gcf(pyplot))] = Append(@, threads[t].diff_img)]
    /\ ThreadStep(t, [threads[t] EXCEPT !.pc = "tight_layout"])
    /\ UNCHANGED fs

\* line 63: plt.tight_layout(pad=0)
ThreadTightLayout(t) ==
    /\ threads[t].pc = "tight_layout"
    /\ pyplot' = Gcf(pyplot)
    /\ ThreadStep(t, [threads[t] EXCEPT !.pc = "savefig"])
    /\ UNCHANGED fs

\* line 64: plt.savefig(out_path, ...) saves the current figure
ThreadSavefig(t) ==
    LET me == threads[t]
        figures == Gcf(pyplot)
        saved == savefig(fs, me.change_map_path, figures[Len(figures)])
    IN  /\ me.pc = "savefig"
        /\ pyplot' = figures
        /\ IF saved.ok
           THEN fs' = saved.value /\ ThreadStep(t, [me EXCEPT !.pc = "close"])
           ELSE UNCHANGED fs /\ ThreadStep(t, ThreadCaught(me, saved.error))

\* lines 65-66: plt.close() closes the current figure; the call returns
ThreadClose(t) ==
    LET me == threads[t]
    IN  /\ me.pc = "close"
        /\ pyplot' = IF pyplot = <<>> THEN <<>> ELSE SubSeq(pyplot, 1, Len(pyplot) - 1)
        /\ ThreadStep(t, [me EXCEPT !.pc = "done", !.result = me.report])
        /\ UNCHANGED fs

NextThreads ==
    \/ \E t \in Threads : ThreadAnalyze(t)
    \/ \E t \in Threads : ThreadMakedirs(t)
    \/ \E t \in Threads : ThreadFigure(t)
    \/ \E t \in Threads : ThreadAxis(t)
    \/ \E t \in Threads : ThreadImshow(t)
    \/ \E t \in Threads : ThreadTightLayout(t)
    \/ \E t \in Threads : ThreadSavefig(t)
    \/ \E t \in Threads : ThreadClose(t)

SpecThreads == InitThreads /\ [][NextThreads]_vars

\* the two calls one after the other
Sequential ==
    LET first == DetectChangesCall(threads[1].before, threads[1].after,
                                   <<threads[1].change_map_path>>, Omitted, FreshFs)
        second == DetectChangesCall(threads[2].before, threads[2].after,
                                    <<threads[2].change_map_path>>, Omitted, first.fs)
    IN  [results |-> <<first.outcome, second.outcome>>, fs |-> second.fs]

AllDone == \A t \in Threads : threads[t].pc = "done"

\* C16: when two concurrent calls of detect_changes, on their own pairs and
\* with their own map paths, have both returned, the reports and the change
\* map files are those of the two calls made one after the other.
C16_ConcurrentAsSequential ==
    AllDone =>
        /\ \A t \in Threads : threads[t].result = Sequential.results[t]
        /\ fs = Sequential.fs

\* the reports alone are those of the sequential run
C16_SameReports ==
    AllDone => \A t \in Threads : threads[t].result = Sequential.results[t]

\* ------------------------------------------- specification: index calculators
\* The index calculators on single bands of signed samples: sums that are
\* positive, zero (from zeros and from opposite values) and negative.
MaxSample == 3

Samples == (-MaxSample)..MaxSample

\* a one-band raster of one row and two pixels
SampleBand(v1, v2) ==
    GeoTiff([shape |-> <<1, 1, 2>>, data |-> <<v1, v2>>])

SampleBands == {SampleBand(v1, v2) : v1 \in Samples, v2 \in Samples}

InitIndex ==
    /\ before_file \in SampleBands
    /\ after_file \in SampleBands
    /\ pc = "idle"
    /\ call = NoCall
    /\ result = NoResult
    /\ written = {}
    /\ fs = FreshFs
    /\ log = ""
    /\ pyplot = NoFigures
    /\ threads = NoThreads

NextIndex ==
    \/ CallNdvi
    \/ CallNdbi
    \/ Return

SpecIndex == InitIndex /\ [][NextIndex]_vars

\* the pixels of the two bands an index calculator was called on
FirstBand == LastBand(before_file.array)

SecondBand == Band(after_file.array, 0)

IndexReturned == pc = "returned" /\ call.op \in {"calculate_ndvi", "calculate_ndbi"}

\* C19 as stated: at every pixel the index is (x - y) / max(x + y, 1e-10),
\* so a sum that is zero or negative divides by 1e-10.
C19_FlooredDenominator ==
    IndexReturned =>
        /\ result.ok
        /\ \A p \in DOMAIN result.value.data :
              LET x == FirstBand.data[p]
                  y == SecondBand.data[p]
                  r == result.value.data[p]
              IN  IF x + y <= 0
                  THEN r.e = x - y /\ r.n = 0 /\ r.d = 1
                  ELSE r.e = 0 /\ r.d > 0 /\ r.n * (x + y) = (x - y) * r.d

\* C19 amended: at every pixel the index is (x - y) / (x + y) when the sum is
\* positive or negative and (x - y) / 1e-10 when the sum is exactly zero; the
\* difference is the signed one (negative when y > x), never wrapped.
C19_ZeroOnlyReplaced ==
    IndexReturned =>
        /\ result.ok
        /\ \A p \in DOMAIN result.value.data :
              LET x == FirstBand.data[p]
                  y == SecondBand.data[p]
                  r == result.value.data[p]
              IN  IF x + y = 0
                  THEN r.e = x - y /\ r.n = 0 /\ r.d = 1
                  ELSE r.e = 0 /\ r.d > 0 /\ r.n * (x + y) = (x - y) * r.d

\* calculate_ndvi returned for a pixel with a negative sum and a pixel with a
\* zero sum whose first value is below the second
C19_Witness ==
    /\ Returned("calculate_ndvi")
    /\ result.ok
    /\ FirstBand.data[1] + SecondBand.data[1] < 0
    /\ FirstBand.data[2] + SecondBand.data[2] = 0
    /\ FirstBand.data[2] < SecondBand.data[2]

\* C20: the denominator an index calculator divides by is never zero, every
\* output is finite, and a band pair that is all zeros returns (does not
\* raise) an index of 0 at every pixel.
C20_NoZeroDivision ==
    IndexReturned =>
        /\ result.ok
        /\ \A p \in DOMAIN result.value.data :
              LET den == Denominator(FirstBand.data[p], SecondBand.data[p])
              IN  /\ den.eps # 0 \/ den.sum # 0
                  /\ IsFinite(result.value.data[p])
        /\ (\A p \in DOMAIN FirstBand.data :
                 FirstBand.data[p] = 0 /\ SecondBand.data[p] = 0)
             => \A p \in DOMAIN result.value.data : result.value.data[p] = Zero

\* calculate_ndbi returned for two bands that are all zeros
C20_Witness ==
    /\ Returned("calculate_ndbi")
    /\ result.ok
    /\ \A p \in DOMAIN FirstBand.data :
           FirstBand.data[p] = 0 /\ SecondBand.data[p] = 0

\* ------------------------------------------- claims: layouts and statistics
\* the same raster pair with the band axis moved to the innermost position
PixelMajor(file) == Transpose120(file.array)

\* C21: calculate_pixel_change_percentage returns for a band-major pair what
\* it returns for the same pair in pixel-major layout, whatever the band
\* count and the extent.
C21_LayoutIndependent ==
    (Returned("calculate_pixel_change_percentage") /\ BothRasters
        /\ before_file.array.shape = after_file.array.shape) =>
        result = calculate_pixel_change_percentage(PixelMajor(before_file),
                                                   PixelMajor(after_file),
                                                   call.threshold_factor)

\* after index - before index of the rasters, for the index of two bands
IndexDelta(calc(_, _), first, second) ==
    Map2(LAMBDA a, b : NumSub(a, b),
         calc(Band(after_file.array, first), Band(after_file.array, second)).value,
         calc(Band(before_file.array, first), Band(before_file.array, second)).value).data

Hundred == Frac(100, 1)

\* fell is the share of the pixels of delta below -0.1, rose the share above
\* 0.1, net their difference, and the two shares together are at most 100
SharesFollow(delta, fell, rose, net) ==
    /\ fell = Percentage(Cardinality({p \in DOMAIN delta :
                                         NumLT(delta[p], NumNeg(Tenth))}), Len(delta))
    /\ rose = Percentage(Cardinality({p \in DOMAIN delta :
                                         NumGT(delta[p], Tenth)}), Len(delta))
    /\ net = NumSub(rose, fell)
    /\ NumLE(NumAdd(fell, rose), Hundred)
    /\ \A p \in DOMAIN delta :
          delta[p] = Zero => /\ fell = Percentage(Cardinality({q \in DOMAIN delta \ {p} :
                                      NumLT(delta[q], NumNeg(Tenth))}), Len(delta))
                             /\ rose = Percentage(Cardinality({q \in DOMAIN delta \ {p} :
                                      NumGT(delta[q], Tenth)}), Len(delta))

\* C22: in every report with index statistics, loss% and gain% are the
\* shares of the pixels whose vegetation index fell or rose by strictly more
\* than 0.1, net_change is gain% - loss%, loss% + gain% is at most 100, and
\* growth%, decline% and the urban net_change follow the same rule on the
\* built-up index.
C22_SharesOfDelta ==
    RasterReport =>
        /\ ~IsEmptyDict(result.value.vegetation_changes) =>
              SharesFollow(IndexDelta(calculate_ndvi, 3, 2),
                           result.value.vegetation_changes.loss_percentage,
                           result.value.vegetation_changes.gain_percentage,
                           result.value.vegetation_changes.net_change)
        /\ ~IsEmptyDict(result.value.urban_changes) =>
              SharesFollow(IndexDelta(calculate_ndbi, 4, 3),
                           result.value.urban_changes.decline_percentage,
                           result.value.urban_changes.growth_percentage,
                           result.value.urban_changes.net_change)

\* a report with vegetation loss, vegetation gain and urban growth in one image
C22_Witness ==
    /\ RasterReport
    /\ ~IsEmptyDict(result.value.vegetation_changes)
    /\ ~IsEmptyDict(result.value.urban_changes)
    /\ NumGT(result.value.vegetation_changes.loss_percentage, Zero)
    /\ NumGT(result.value.vegetation_changes.gain_percentage, Zero)
    /\ NumGT(result.value.urban_changes.growth_percentage, Zero)

\* both files are photos of one shape: rasterio opens neither, PIL both
BothPhotos ==
    /\ before_file.format = "photo"
    /\ after_file.format = "photo"
    /\ before_file.array.shape = after_file.array.shape

\* C24: on the RGB fallback path of detect_changes the report's
\* pixel_change_percentage is what the Pixel Change Detector returns for the
\* two images and the caller's threshold factor.
C24_FallbackUsesDetector ==
    (Returned("detect_changes") /\ BothPhotos) =>
        /\ result.ok
        /\ result.value.pixel_change_percentage = PixelChange(call.threshold_factor).value

\* C27: in every report the engine returns, total_change_percentage lies
\* between 0 and 100 inclusive.
C27_TotalWithinPercentRange ==
    (pc = "returned" /\ result.ok
        /\ call.op \in {"detect_changes", "process_geotiff", "process_regular_image"}) =>
        /\ NumGE(result.value.total_change_percentage, Zero)
        /\ NumLE(result.value.total_change_percentage, Hundred)

\* ------------------------------------- specification: Index Change Analyzer
\* analyze_satellite_changes called on its own, on the index arrays of a pair
\* of rasters of five bands or more, each argument given or None.
AnalyzerPairs == {pair \in RasterPairs : pair[1].array.shape[1] >= SwirBandCount}

AnalyzerArguments == {"before_ndvi", "after_ndvi", "before_ndbi", "after_ndbi"}

InitAnalyze ==
    /\ \E pair \in AnalyzerPairs :
          /\ before_file = pair[1]
          /\ after_file = pair[2]
    /\ pc = "idle"
    /\ call = NoCall
    /\ result = NoResult
    /\ written = {}
    /\ fs = FreshFs
    /\ log = ""
    /\ pyplot = NoFigures
    /\ threads = NoThreads

\* the index array of a raster, or None when the argument is not given
IndexArgument(name, given, calc(_, _), data, first, second) ==
    IF name \in given THEN calc(Band(data, first), Band(data, second)).value ELSE None

CallAnalyze ==
    /\ pc = "idle"
    /\ \E given \in SUBSET AnalyzerArguments :
          /\ call' = [op |-> "analyze_satellite_changes", threshold_factor |-> 0,
                       given |-> given]
          /\ result' = analyze_satellite_changes(
                 IndexArgument("before_ndvi", given, calculate_ndvi, before_file.array, 3, 2),
                 IndexArgument("after_ndvi", given, calculate_ndvi, after_file.array, 3, 2),
                 IndexArgument("before_ndbi", given, calculate_ndbi, before_file.array, 4, 3),
                 IndexArgument("after_ndbi", given, calculate_ndbi, after_file.array, 4, 3))
    /\ pc' = "returned"
    /\ written' = {}
    /\ UNCHANGED <<before_file, after_file, fs, log, pyplot, threads>>

NextAnalyze == CallAnalyze

SpecAnalyze == InitAnalyze /\ [][NextAnalyze]_vars

\* the statistics of an index are available when both its arrays were given
Available(index) == {"before_" \o index, "after_" \o index} \subseteq call.given

\* C23: the total_change_percentage that analyze_satellite_changes returns is
\* loss% + gain% when only the vegetation statistics are available, loss% +
\* gain% + growth% + decline% when the urban statistics are available too, and
\* 0 when neither index was computed.
C23_TotalIsTheSum ==
    Returned("analyze_satellite_changes") =>
        /\ result.ok
        /\ (Available("ndvi") /\ ~Available("ndbi")) =>
              result.value.total_change_percentage
                = NumAdd(result.value.vegetation_changes.loss_percentage,
                         result.value.vegetation_changes.gain_percentage)
        /\ (Available("ndvi") /\ Available("ndbi")) =>
              result.value.total_change_percentage
                = NumAdd(NumAdd(result.value.vegetation_changes.loss_percentage,
                                result.value.vegetation_changes.gain_percentage),
                         NumAdd(result.value.urban_changes.growth_percentage,
                                result.value.urban_changes.decline_percentage))
        /\ (~Available("ndvi") /\ ~Available("ndbi")) =>
              result.value.total_change_percentage = Zero

\* both statistics available and both contribute to the total
C23_Witness ==
    /\ Returned("analyze_satellite_changes")
    /\ Available("ndvi")
    /\ Available("ndbi")
    /\ NumGT(result.value.vegetation_changes.gain_percentage, Zero)
    /\ NumGT(result.value.urban_changes.decline_percentage, Zero)
    /\ NumGT(result.value.total_change_percentage,
             NumAdd(result.value.vegetation_changes.loss_percentage,
                    result.value.vegetation_changes.gain_percentage))

\* ------------------------------------- specification: RGB Fallback Analyzer
\* process_regular_image on photos of one or two pixels whose channel values
\* lie on and next to the thresholds 10, 20 and 30 of the analyzer.
PhotoLevels ==
    {0, HeadlineThreshold, HeadlineThreshold + 1, ChannelThreshold, ChannelThreshold + 1,
     ChannelThreshold + HeadlineThreshold + 1}

\* a photo of w pixels: the first of the given channel values, the others gray
LevelPhoto(w, red, green, blue, gray) ==
    Photo(Arr(<<1, w, RgbChannels>>,
              LAMBDA q : IF q >= RgbChannels THEN gray
                         ELSE IF q = 0 THEN red ELSE IF q = 1 THEN green ELSE blue))

LevelPairs ==
    {<<LevelPhoto(w, base, base, base, base), LevelPhoto(w, red, green, blue, gray)>> :
        w \in 1..2, base \in {0, ChannelThreshold + 1},
        red \in PhotoLevels, green \in PhotoLevels, blue \in PhotoLevels,
        gray \in PhotoLevels}

InitPhoto ==
    /\ \E pair \in LevelPairs :
          /\ before_file = pair[1]
          /\ after_file = pair[2]
    /\ pc = "idle"
    /\ call = NoCall
    /\ result = NoResult
    /\ written = {}
    /\ fs = FreshFs
    /\ log = ""
    /\ pyplot = NoFigures
    /\ threads = NoThreads

NextPhoto ==
    \/ CallProcessRegularImage
    \/ Return

SpecPhoto == InitPhoto /\ [][NextPhoto]_vars

\* the pixels of the two photos
PhotoPixels == 0..(after_file.array.shape[1] * after_file.array.shape[2] - 1)

\* |after - before| of one channel of one pixel
ChannelDiff(pixel, channel) ==
    Abs(after_file.array.data[pixel * RgbChannels + channel + 1]
        - before_file.array.data[pixel * RgbChannels + channel + 1])

\* the percentage of the pixels whose channel differs by strictly more than 20
ChannelShare(channel) ==
    Percentage(Cardinality({pixel \in PhotoPixels : ChannelDiff(pixel, channel) > 20}),
               Cardinality(PhotoPixels))

\* the label that the shares of the three channels call for
LabelOf(red, green, blue) ==
    IF NumGT(green, red) /\ NumGT(green, blue) THEN "vegetation"
    ELSE IF NumGT(red, green) /\ NumGT(red, blue) THEN "urban"
    ELSE "unknown"

\* C25: process_regular_image labels the change vegetation exactly when the
\* green share of pixels differing by more than 20 strictly exceeds the red
\* and the blue share, urban exactly when the red share strictly exceeds the
\* other two, and unknown otherwise; the two labels exclude each other.
C25_ChangeTypeByLargestChannel ==
    Returned("process_regular_image") =>
        /\ result.ok
        /\ result.value.channel_changes
              = [red |-> ChannelShare(0), green |-> ChannelShare(1), blue |-> ChannelShare(2)]
        /\ result.value.change_type
              = LabelOf(ChannelShare(0), ChannelShare(1), ChannelShare(2))
        /\ ~(/\ NumGT(ChannelShare(1), ChannelShare(0))
             /\ NumGT(ChannelShare(1), ChannelShare(2))
             /\ NumGT(ChannelShare(0), ChannelShare(1))
             /\ NumGT(ChannelShare(0), ChannelShare(2)))

\* red and green tie for the largest share, above blue, and the label is unknown
C25_Witness ==
    /\ Returned("process_regular_image")
    /\ result.ok
    /\ ChannelShare(0) = ChannelShare(1)
    /\ NumGT(ChannelShare(0), ChannelShare(2))
    /\ result.value.change_type = "unknown"

\* the number of channel values of the photos differing by strictly more than t
ValuesAbove(t) ==
    Cardinality({<<pixel, channel>> \in PhotoPixels \X (0..2) :
                    ChannelDiff(pixel, channel) > t})

\* C26: the headline of process_regular_image is 100 x (the number of channel
\* values differing by strictly more than 10, divided by 3) / pixel count,
\* whatever the counts above 20 and 30 are; it lies in [0, 100] and is
\* reported as total_change_percentage and as pixel_change_percentage.
C26_HeadlineFromThresholdTen ==
    Returned("process_regular_image") =>
        /\ result.ok
        /\ result.value.total_change_percentage
              = Frac(100 * ValuesAbove(10), 3 * Cardinality(PhotoPixels))
        /\ NumGE(result.value.total_change_percentage, Zero)
        /\ NumLE(result.value.total_change_percentage, Hundred)
        /\ result.value.pixel_change_percentage = result.value.total_change_percentage

\* a single channel value above 10 and none above 20: a third of a pixel
C26_Witness ==
    /\ Returned("process_regular_image")
    /\ result.ok
    /\ ValuesAbove(10) = 1
    /\ ValuesAbove(20) = 0
    /\ NumGT(result.value.total_change_percentage, Zero)

\* -------------------------------- specification: /generate-summary requests
\* Two requests on one event loop.  The handler gives up control only at its
\* two awaits, each between the open of a temporary file and the write of
\* the upload into it; everything after the second await runs in one piece.
\* threads[r] is request r: what was uploaded, where the handler stands, what
\* its analysis found at the two temporary paths, and its response.
Requests == 1..2

FileNames == {"a.tif", "b.tif"}

\* f"temp_{filename}", a path in the working directory
TempPath(filename) == <<"temp_" \o filename>>

\* a file without content: nothing reads it as an image
Truncated == JunkFile

\* open(path, "wb"): creates the file or empties the one that exists
open_wb(disk, path) ==
    [disk EXCEPT !.files = [p \in DOMAIN @ \cup {path} |->
                             IF p = path THEN Truncated ELSE @[p]]]

\* f.write(bytes) and the close of the with block: the bytes reach the path
\* unless the file was removed while it was open
write(disk, path, linked, bytes) ==
    IF linked /\ path \in DOMAIN disk.files
    THEN [disk EXCEPT !.files = [@ EXCEPT ![path] = bytes]]
    ELSE disk

\* os.remove(path)
remove(disk, path) ==
    IF path \in DOMAIN disk.files
    THEN Ok([disk EXCEPT !.files = [p \in DOMAIN @ \ {path} |-> @[p]]])
    ELSE Raise("FileNotFoundError")

\* what a reader finds at the path
ReadFile(disk, path) == IF path \in DOMAIN disk.files THEN disk.files[path] ELSE JunkFile

\* raise HTTPException(status_code=500, detail=str(e))
Http500(error, disk, printed) == [response |-> [status |-> 500, detail |-> error], fs |-> disk, log |-> printed]

\* the SummaryResponse
Http200(disk, printed) == [response |-> [status |-> 200, detail |-> "SummaryResponse"], fs |-> disk, log |-> printed]

\* os.remove(after_path), after os.remove(before_path)
RemovedBefore(removed, after_path, disk, printed) ==
    IF ~removed.ok THEN Http500(removed.error, disk, printed)
    ELSE IF ~remove(removed.value, after_path).ok
    THEN Http500(remove(removed.value, after_path).error, removed.value, printed)
    ELSE Http200(remove(removed.value, after_path).value, printed)

\* the handler after generate_summary
Summarized(summary, before_path, after_path, disk, printed) ==
    IF ~summary.ok THEN Http500(summary.error, disk, printed)
    ELSE RemovedBefore(remove(disk, before_path), after_path, disk, printed)

\* the handler after detect_changes
Detected(detected, available, answers, before_path, after_path) ==
    IF ~detected.outcome.ok THEN Http500(detected.outcome.error, detected.fs, detected.log)
    ELSE Summarized(generate_summary(detected.outcome.value, available, answers),
                    before_path, after_path, detected.fs, detected.log)

\* the uploads of request r: two rasters of four bands and two pixels that
\* differ in one pixel, two photos of one pixel, or two files that are no
\* images; no two images uploaded are equal
UploadKinds == {"raster", "photo", "junk"}

Upload(r, kind, role) ==
    IF kind = "raster"
    THEN GeoTiff(Arr(<<NirBandCount, 1, 2>>,
                     LAMBDA q : IF q = 0 THEN 4 * r + role ELSE 0))
    ELSE IF kind = "photo"
    THEN Photo(Arr(<<1, 1, RgbChannels>>, LAMBDA q : 4 * r + role))
    ELSE JunkFile

NewRequest(r, before_name, after_name, kind, k) ==
    [pc |-> "received",
     before_path |-> TempPath(before_name),
     after_path |-> TempPath(after_name),
     before_image |-> Upload(r, kind, 0),
     after_image |-> Upload(r, kind, 1),
     pixel_threshold_factor |-> k,
     linked |-> FALSE,
     analyzed |-> <<>>,
     response |-> [status |-> 0, detail |-> ""]]

InitRequests ==
    /\ \E before_name \in [Requests -> FileNames], after_name \in [Requests -> FileNames],
          kind \in [Requests -> UploadKinds], k \in [Requests -> 0..1] :
          threads = [r \in Requests |->
                        NewRequest(r, before_name[r], after_name[r], kind[r], k[r])]
    /\ before_file = JunkFile
    /\ after_file = JunkFile
    /\ pc = "idle"
    /\ call = NoCall
    /\ result = NoResult
    /\ written = {}
    /\ fs = FreshFs
    /\ log = ""
    /\ pyplot = NoFigures

\* the other requests' open files at the path lose it when it is removed
Unlinked(r, removed_fs) ==
    [q \in Requests |->
        IF q # r /\ threads[q].pc = "await_before"
              /\ threads[q].before_path \notin DOMAIN removed_fs.files
        THEN [threads[q] EXCEPT !.linked = FALSE]
        ELSE IF q # r /\ threads[q].pc = "await_after"
              /\ threads[q].after_path \notin DOMAIN removed_fs.files
        THEN [threads[q] EXCEPT !.linked = FALSE]
        ELSE threads[q]]

\* lines 56-60, up to `await before_image.read()`
RequestOpenBefore(r) ==
    /\ threads[r].pc = "received"
    /\ fs' = open_wb(fs, threads[r].before_path)
    /\ threads' = [threads EXCEPT ![r].pc = "await_before", ![r].linked = TRUE]
    /\ UNCHANGED <<before_file, after_file, pc, call, result, written, log, pyplot>>

\* lines 60-62: the write of the before upload, up to `await after_image.read()`
RequestOpenAfter(r) ==
    /\ threads[r].pc = "await_before"
    /\ fs' = open_wb(write(fs, threads[r].before_path, threads[r].linked,
                           threads[r].before_image),
                     threads[r].after_path)
    /\ threads' = [threads EXCEPT ![r].pc = "await_after", ![r].linked = TRUE]
    /\ UNCHANGED <<before_file, after_file, pc, call, result, written, log, pyplot>>

\* the request ends with the response; the files it removed are gone for
\* the other requests too
RequestEnds(r, analyzed, ended) ==
    /\ fs' = ended.fs
    /\ log' = ended.log
    /\ threads' = [Unlinked(r, ended.fs) EXCEPT ![r].pc = "done",
                                                ![r].linked = FALSE,
                                                ![r].analyzed = analyzed,
                                                ![r].response = ended.response]

\* lines 62-99: the write of the after upload and the rest of the handler,
\* the analysis on what is at the two paths then
RequestFinish(r) ==
    /\ threads[r].pc = "await_after"
    /\ \E written_fs \in {write(fs, threads[r].after_path, threads[r].linked,
                                 threads[r].after_image)} :
       \E before \in {ReadFile(written_fs, threads[r].before_path)},
          after \in {ReadFile(written_fs, threads[r].after_path)} :
       \E detected \in {EndpointCall(before, after, <<threads[r].pixel_threshold_factor>>,
                                      written_fs)} :
       \E available \in ModelSets, answers \in BOOLEAN :
       \E ended \in {Detected(detected, available, answers,
                                threads[r].before_path, threads[r].after_path)} :
          RequestEnds(r, <<before, after>>, ended)
    /\ UNCHANGED <<before_file, after_file, pc, call, result, written, pyplot>>

NextRequests ==
    \E r \in Requests :
        \/ RequestOpenBefore(r)
        \/ RequestOpenAfter(r)
        \/ RequestFinish(r)

SpecRequests == InitRequests /\ [][NextRequests]_vars

\* request r has completed and no other request has begun
CompletedAlone(r) ==
    /\ threads[r].pc = "done"
    /\ \A q \in Requests \ {r} : threads[q].pc = "received"

\* the analysis of request r found its two uploads at the two paths
AnalyzedOwnUploads(r) ==
    threads[r].analyzed = <<threads[r].before_image, threads[r].after_image>>

\* C28: within one request the two uploads are stored at distinct temporary
\* paths and the analysis compares the uploaded before content with the
\* uploaded after content, whatever the two filenames are.
C28_UploadsKeptApart ==
    \A r \in Requests :
        CompletedAlone(r) =>
            /\ threads[r].before_path # threads[r].after_path
            /\ AnalyzedOwnUploads(r)

\* two different filenames do keep the uploads of a lone request apart
C28_DistinctNamesKeptApart ==
    \A r \in Requests :
        (CompletedAlone(r) /\ threads[r].before_path # threads[r].after_path) =>
            AnalyzedOwnUploads(r)

\* C29: when a request has completed, with a response or with HTTP 500, the
\* two temporary files it created are gone.
C29_TempFilesRemoved ==
    \A r \in Requests :
        CompletedAlone(r) =>
            /\ threads[r].before_path \notin DOMAIN fs.files
            /\ threads[r].after_path \notin DOMAIN fs.files

\* a lone request that returned a response did remove its two files
C29_RemovedAfterResponse ==
    \A r \in Requests :
        (CompletedAlone(r) /\ threads[r].response.status = 200) =>
            /\ threads[r].before_path \notin DOMAIN fs.files
            /\ threads[r].after_path \notin DOMAIN fs.files

\* C30: however two requests interleave at the awaits of the handler, the
\* analysis of each finds at its two paths the bytes uploaded in that
\* request, also when the two requests use the same filenames.
C30_RequestsDoNotInterfere ==
    \A r \in Requests :
        (threads[r].pc = "done" /\ threads[r].before_path # threads[r].after_path) =>
            AnalyzedOwnUploads(r)

====
